---- MODULE Spec2Model ----
(***************************************************************************)
(* WaveWatch: the surf-conditions pipeline of                              *)
(* src/src/wavewatch/api/data_fetcher.py (StormglassDataFetcher) and the   *)
(* REST facade of src/surf_api.py.                                         *)
(*                                                                         *)
(* Conventions of the model                                                *)
(*  - Python str is a TLA+ string; lower(), strip() and the `in` substring *)
(*    test are computed character by character.                            *)
(*  - Python float readings are fixed-point integers: a raw reading is in  *)
(*    hundredths of its source unit, a normalized reading (round(x, 1)) is *)
(*    in tenths of its imperial unit, a score is in tenths.                *)
(*  - Coordinates are in 1/10000 of a degree (the gazetteer gives four     *)
(*    decimals).                                                           *)
(*  - An optional Python value is a sequence of length at most one: None  *)
(*    is <<>>, a value x is <<x>>.  A reading is a tagged record, so that  *)
(*    the 'N/A' sentinel and the number 0 are different values.            *)
(***************************************************************************)
EXTENDS Integers, Sequences, FiniteSets, TLC

VARIABLES
    cache_file,   \* surf_data_cache.json on disk: [state, entries]
    now,          \* time.time(), in seconds
    ticks,        \* number of clock advances so far (bounded)
    calls,        \* number of public operations called so far (bounded)
    last,         \* the last public operation of the fetcher: inputs, effects, return value
    api,          \* the last request served by the REST facade: inputs, fetcher calls, response
    name_in,      \* resolver harness: the name last resolved
    resolved,     \* resolver harness: what _get_beach_coordinates returned for it
    hours_in,     \* ranker harness: the raw hours of the payload being normalized
    ranked,       \* ranker harness: the last get_best_surf_times analysis of hours_in
    threads,      \* concurrent invocations of fetch_surf_data: position and locals of each
    disk,         \* concurrent invocations: the content of the cache file, unit by unit
    fetched       \* concurrent invocations: every <<key, entry>> an invocation has built

vars == <<cache_file, now, ticks, calls, last, api, name_in, resolved, hours_in, ranked, threads, disk, fetched>>

None == <<>>
Some(x) == <<x>>

(***************************************************************************)
(* Python str helpers                                                      *)
(***************************************************************************)

CharAt(s, i) == SubSeq(s, i, i)

LowerChar(c) ==
    LET upper == "ABCDEFGHIJKLMNOPQRSTUVWXYZ"
        lower == "abcdefghijklmnopqrstuvwxyz"
    IN  IF \E i \in 1..Len(upper) : CharAt(upper, i) = c
        THEN CharAt(lower, CHOOSE i \in 1..Len(upper) : CharAt(upper, i) = c)
        ELSE c

RECURSIVE str_lower(_)
str_lower(s) ==
    IF s = "" THEN "" ELSE LowerChar(CharAt(s, 1)) \o str_lower(SubSeq(s, 2, Len(s)))

RECURSIVE str_lstrip(_)
str_lstrip(s) ==
    IF s # "" /\ CharAt(s, 1) \in {" ", "\t", "\n"} THEN str_lstrip(SubSeq(s, 2, Len(s))) ELSE s

RECURSIVE str_rstrip(_)
str_rstrip(s) ==
    IF s # "" /\ CharAt(s, Len(s)) \in {" ", "\t", "\n"} THEN str_rstrip(SubSeq(s, 1, Len(s) - 1)) ELSE s

str_strip(s) == str_rstrip(str_lstrip(s))

\* Python `needle in hay` for two str: true for the empty needle
str_in(needle, hay) ==
    \E i \in 1..(Len(hay) - Len(needle) + 1) : SubSeq(hay, i, i + Len(needle) - 1) = needle

(***************************************************************************)
(* Python dict literals: a key written twice keeps its first position and  *)
(* its last value.                                                         *)
(***************************************************************************)
DictHas(lit, k) == \E i \in 1..Len(lit) : lit[i][1] = k

DictGet(lit, k) ==
    lit[CHOOSE i \in 1..Len(lit) : lit[i][1] = k /\ \A j \in (i+1)..Len(lit) : lit[j][1] # k][2]

\* the positions of the literal that start a key: iteration order of the dict
DictOrder(lit) ==
    SelectSeq([i \in 1..Len(lit) |-> i], LAMBDA i : \A j \in 1..(i-1) : lit[j][1] # lit[i][1])

(***************************************************************************)
(* StormglassDataFetcher.__init__: the static tables                       *)
(***************************************************************************)
cache_expiry == 86400

beach_coordinates_literal ==
  <<
     <<"pleasure point", <<369514, -1220256>>>>,
     <<"malibu", <<340259, -1187798>>>>,
     <<"pipeline", <<216611, -1580536>>>>,
     <<"trestles", <<333703, -1175681>>>>,
     <<"mavericks", <<374897, -1224993>>>>,
     <<"huntington beach", <<336595, -1179988>>>>,
     <<"venice beach", <<339850, -1184695>>>>,
     <<"manhattan beach", <<338847, -1184109>>>>,
     <<"hermosa beach", <<338622, -1183991>>>>,
     <<"redondo beach", <<338492, -1183881>>>>,
     <<"el segundo", <<339192, -1184165>>>>,
     <<"torrance beach", <<338036, -1183931>>>>,
     <<"palos verdes", <<337444, -1183878>>>>,
     <<"rancho palos verdes", <<337444, -1183878>>>>,
     <<"san onofre", <<333703, -1175681>>>>,
     <<"doheny", <<334625, -1177142>>>>,
     <<"salt creek", <<334625, -1177142>>>>,
     <<"laguna beach", <<335427, -1177854>>>>,
     <<"newport beach", <<336189, -1179298>>>>,
     <<"seal beach", <<337414, -1181048>>>>,
     <<"long beach", <<337701, -1181937>>>>,
     <<"sunset beach", <<337167, -1180833>>>>,
     <<"bolsa chica", <<337414, -1181048>>>>,
     <<"huntington state beach", <<336595, -1179988>>>>,
     <<"crystal cove", <<335427, -1177854>>>>,
     <<"corona del mar", <<336189, -1179298>>>>,
     <<"balboa", <<336189, -1179298>>>>,
     <<"newport pier", <<336189, -1179298>>>>,
     <<"blackies", <<336189, -1179298>>>>,
     <<"the wedge", <<336189, -1179298>>>>,
     <<"salt creek", <<334625, -1177142>>>>,
     <<"doheny state beach", <<334625, -1177142>>>>,
     <<"san clemente", <<333703, -1175681>>>>,
     <<"trestles", <<333703, -1175681>>>>,
     <<"san onofre state beach", <<333703, -1175681>>>>,
     <<"trails", <<333703, -1175681>>>>,
     <<"old man's", <<333703, -1175681>>>>,
     <<"church", <<333703, -1175681>>>>,
     <<"middles", <<333703, -1175681>>>>,
     <<"cottons", <<333703, -1175681>>>>,
     <<"upper trestles", <<333703, -1175681>>>>,
     <<"lower trestles", <<333703, -1175681>>>>,
     <<"uppers", <<333703, -1175681>>>>,
     <<"lowers", <<333703, -1175681>>>>,
     <<"trestles", <<333703, -1175681>>>>,
     <<"san onofre", <<333703, -1175681>>>>,
     <<"trails", <<333703, -1175681>>>>,
     <<"old man's", <<333703, -1175681>>>>,
     <<"church", <<333703, -1175681>>>>,
     <<"middles", <<333703, -1175681>>>>,
     <<"cottons", <<333703, -1175681>>>>,
     <<"upper trestles", <<333703, -1175681>>>>,
     <<"lower trestles", <<333703, -1175681>>>>,
     <<"uppers", <<333703, -1175681>>>>,
     <<"lowers", <<333703, -1175681>>>>,
     <<"scripps", <<328667, -1172500>>>>,
     <<"tourmaline", <<328000, -1172667>>>>
  >>
tide_stations_literal ==
  <<
     <<"pleasure point", "9413745">>,
     <<"malibu", "9410660">>,
     <<"pipeline", "1612340">>,
     <<"trestles", "9410660">>,
     <<"mavericks", "9413450">>,
     <<"huntington beach", "9410660">>,
     <<"venice beach", "9410660">>,
     <<"manhattan beach", "9410660">>,
     <<"hermosa beach", "9410660">>,
     <<"redondo beach", "9410660">>,
     <<"el segundo", "9410660">>,
     <<"scripps", "9410230">>,
     <<"tourmaline", "9410230">>
  >>

(***************************************************************************)
(* _get_beach_coordinates                                                  *)
(***************************************************************************)
\* a partial match that only looks for the name inside the key
PartialMatchOneWay(beach_key, key) == str_in(beach_key, key)

\* line 151: beach_key in key or key in beach_key
PartialMatch(beach_key, key) == str_in(beach_key, key) \/ str_in(key, beach_key)

\* the resolver without its normalisation of the name (no lower(), no strip())
ResolveVerbatim(beach_name) ==
    LET order == DictOrder(beach_coordinates_literal)
        hits == SelectSeq(order, LAMBDA i : PartialMatch(beach_name, beach_coordinates_literal[i][1]))
    IN  IF DictHas(beach_coordinates_literal, beach_name)
        THEN DictGet(beach_coordinates_literal, beach_name)
        ELSE IF hits # <<>>
             THEN DictGet(beach_coordinates_literal, beach_coordinates_literal[hits[1]][1])
             ELSE None

_get_beach_coordinates(beach_name) ==
    LET beach_key == str_strip(str_lower(beach_name))
        order == DictOrder(beach_coordinates_literal)
        hits == SelectSeq(order, LAMBDA i : PartialMatch(beach_key, beach_coordinates_literal[i][1]))
    IN  IF DictHas(beach_coordinates_literal, beach_key)
        THEN DictGet(beach_coordinates_literal, beach_key)
        ELSE IF hits # <<>>
             THEN DictGet(beach_coordinates_literal, beach_coordinates_literal[hits[1]][1])
             ELSE None

(***************************************************************************)
(* The beach names the specifications call with.  Their lookups are        *)
(* tabulated once from the definitions above and below: Lookup*(n) is the  *)
(* same value as the call, for every n.                                    *)
(***************************************************************************)
PipelineNames == {"Malibu", "trestles", "san onofre", "atlantis"}

GazetteerKeys == {beach_coordinates_literal[i][1] : i \in 1..Len(beach_coordinates_literal)}

\* every key of the gazetteer; keys in other letter case or padded with
\* whitespace; parts of keys; names that contain a key; unknown names
ResolveNames ==
    GazetteerKeys
    \cup {"Malibu", "MALIBU", "  malibu ", "Pipeline\n", "San Onofre State Beach", "\tUpper Trestles",
          "Rancho Palos Verdes ", "Old Man's", "The Wedge"}
    \cup {"", "san", "beach", "state beach", "huntington", "the wedge at newport", "north malibu"}
    \cup {"atlantis", "zuma"}

CoordinatesTable == [n \in PipelineNames \cup ResolveNames |-> _get_beach_coordinates(n)]

LookupCoordinates(beach_name) ==
    IF beach_name \in DOMAIN CoordinatesTable
    THEN CoordinatesTable[beach_name]
    ELSE _get_beach_coordinates(beach_name)

\* self.tide_stations.get(beach_name.lower()), line 170
TideStation(beach_name) ==
    IF DictHas(tide_stations_literal, str_lower(beach_name))
    THEN Some(DictGet(tide_stations_literal, str_lower(beach_name)))
    ELSE None

StationTable == [n \in PipelineNames |-> TideStation(n)]

LookupStation(beach_name) ==
    IF beach_name \in PipelineNames THEN StationTable[beach_name] ELSE TideStation(beach_name)

(***************************************************************************)
(* Readings.  A raw reading hour_data[param]['noaa'] is                    *)
(*   NA      the parameter or its 'noaa' source is absent (.get default),  *)
(*   JNull   JSON null   (float(None) raises TypeError),                   *)
(*   JText   a non-numeric JSON string (float('..') raises ValueError),    *)
(*   Num(v)  a number, v in hundredths of its unit.                        *)
(* A normalized reading is NA or Num(v), v in tenths (tide: hundredths).   *)
(***************************************************************************)
NA == [t |-> "N/A"]
JNull == [t |-> "null"]
JText == [t |-> "text"]
Num(v) == [t |-> "num", v |-> v]

\* n/d rounded to the nearest integer, exact ties to even (d > 0)
RoundHalfEven(n, d) ==
    LET q == n \div d
        r == n % d
    IN  IF 2 * r > d \/ (2 * r = d /\ q % 2 = 1) THEN q + 1 ELSE q

\* what float(v) raises for a reading that is not 'N/A'
FloatExc(v) == IF v = JNull THEN "TypeError" ELSE IF v = JText THEN "ValueError" ELSE "none"

\* round(float(m) * 3.28084, 1): hundredths of a meter -> tenths of a foot
MetersToFeet1(m) == RoundHalfEven(m * 328084, 1000000)
\* round(float(ms) * 2.23694, 1): hundredths of m/s -> tenths of mph
MsToMph1(ms) == RoundHalfEven(ms * 223694, 1000000)
\* round(float(c) * 9/5 + 32, 1): hundredths of a degree C -> tenths of a degree F
CToF1(c) == RoundHalfEven(c * 9 + 16000, 50)
\* visibility converted like a length in meters
VisibilityAsFeet(km) == RoundHalfEven(km * 328084, 1000000)
\* round(float(km) * 0.621371, 1): hundredths of the source unit -> tenths
KmToMi1(km) == RoundHalfEven(km * 621371, 10000000)
\* round(float(h) * 3.28084, 2): hundredths of a meter -> hundredths of a foot
MetersToFeet2(m) == RoundHalfEven(m * 328084, 100000)

\* `round(conv(float(v)), 1) if v != 'N/A' else 'N/A'`, when float(v) does not raise
Converted(x, conv) ==
    CASE conv = "MetersToFeet1" -> MetersToFeet1(x)
      [] conv = "MsToMph1" -> MsToMph1(x)
      [] conv = "CToF1" -> CToF1(x)
      [] conv = "KmToMi1" -> KmToMi1(x)

\* a conversion that takes a reading of 0 for an absent one
ConvertZeroAbsent(v, conv) == IF v.t = "num" /\ v.v # 0 THEN Num(Converted(v.v, conv)) ELSE NA
Convert(v, conv) == IF v.t = "num" THEN Num(Converted(v.v, conv)) ELSE NA
ConvertExc(v) == IF v = NA THEN "none" ELSE FloatExc(v)

\* the first exception of a sequence of evaluation steps, "none" when all succeed
FirstExc(excs) ==
    IF \E i \in 1..Len(excs) : excs[i] # "none"
    THEN excs[CHOOSE i \in 1..Len(excs) : excs[i] # "none" /\ \A j \in 1..(i-1) : excs[j] = "none"]
    ELSE "none"

(***************************************************************************)
(* get_hourly_conditions, lines 361-410: one hour of the loop.             *)
(* hour_data.time is optional (a str).  tide_data is result['tide_data']:  *)
(* [kind |-> "samples", tide_conditions, ..], [kind |-> "error", ..] or    *)
(* [kind |-> "empty"] (the {} default of a cached entry without tide).     *)
(* The tide field is in hundredths of a foot: the NOAA path rounds to 2    *)
(* decimals, the sea-level fallback to 1.                                  *)
(***************************************************************************)
TideMatches(tide_data, hour_time) ==
    IF tide_data.kind = "samples"
    THEN SelectSeq(tide_data.tide_conditions, LAMBDA e : e.time = hour_time)
    ELSE <<>>

HourTime(hour_data, default) == IF hour_data.time = None THEN default ELSE hour_data.time[1]

\* the tide of an hour taken from the last matching sample
TideOfHourLastSample(hour_data, tide_data) ==
    LET m == TideMatches(tide_data, HourTime(hour_data, ""))
        sea_level_m == hour_data.seaLevel
    IN  IF m # <<>>
        THEN Num(m[Len(m)].tide)
        ELSE IF sea_level_m.t = "num"
             THEN Num(10 * MetersToFeet1(sea_level_m.v))
             ELSE NA

TideOfHour(hour_data, tide_data) ==
    LET m == TideMatches(tide_data, HourTime(hour_data, ""))
        sea_level_m == hour_data.seaLevel
    IN  IF m # <<>>
        THEN Num(m[1].tide)
        ELSE IF sea_level_m.t = "num"
             THEN Num(10 * MetersToFeet1(sea_level_m.v))
             ELSE NA

\* a merge that reads tide_conditions without testing that it is there
TideExcWithoutGuard(hour_data, tide_data) ==
    IF tide_data.kind = "error" THEN "KeyError"
    ELSE IF TideMatches(tide_data, HourTime(hour_data, "")) # <<>> THEN "none"
    ELSE ConvertExc(hour_data.seaLevel)

TideExc(hour_data, tide_data) ==
    IF TideMatches(tide_data, HourTime(hour_data, "")) # <<>>
    THEN "none"
    ELSE ConvertExc(hour_data.seaLevel)

NormalizeHourExc(hour_data, tide_data) ==
    FirstExc(<< ConvertExc(hour_data.waveHeight), ConvertExc(hour_data.windSpeed),
                ConvertExc(hour_data.waterTemperature), ConvertExc(hour_data.airTemperature),
                ConvertExc(hour_data.visibility), TideExc(hour_data, tide_data) >>)

NormalizeHour(hour_data, tide_data) ==
    [ time              |-> HourTime(hour_data, "N/A"),
      wave_height       |-> Convert(hour_data.waveHeight, "MetersToFeet1"),
      wave_direction    |-> hour_data.waveDirection,
      wave_period       |-> hour_data.wavePeriod,
      wind_speed        |-> Convert(hour_data.windSpeed, "MsToMph1"),
      wind_direction    |-> hour_data.windDirection,
      water_temperature |-> Convert(hour_data.waterTemperature, "CToF1"),
      air_temperature   |-> Convert(hour_data.airTemperature, "CToF1"),
      pressure          |-> hour_data.pressure,
      humidity          |-> hour_data.humidity,
      visibility        |-> Convert(hour_data.visibility, "KmToMi1"),
      cloud_cover       |-> hour_data.cloudCover,
      precipitation     |-> hour_data.precipitation,
      tide              |-> TideOfHour(hour_data, tide_data) ]

\* the loop over data.get('hours', []); the first raising hour ends it
NormalizeHoursExc(hours, tide_data) ==
    FirstExc([i \in 1..Len(hours) |-> NormalizeHourExc(hours[i], tide_data)])

NormalizeHours(hours, tide_data) ==
    [i \in 1..Len(hours) |-> NormalizeHour(hours[i], tide_data)]

(***************************************************************************)
(* get_best_surf_times, lines 445-484: the analysis of hourly_conditions.  *)
(* min_wave_height is in tenths of a foot, a score in tenths.              *)
(***************************************************************************)
Max(a, b) == IF a >= b THEN a ELSE b
Min(a, b) == IF a <= b THEN a ELSE b

\* `float(hour[f]) if hour[f] != 'N/A' else 0`
ScoringValue(v) == IF v = NA THEN 0 ELSE v.v

WindScore(wind_speed) == Max(0, 200 - wind_speed)
WaveScoreUncapped(wave_height) == wave_height * 10
WaveScore(wave_height) == Min(300, wave_height * 10)
TotalScore(hour) == WaveScore(ScoringValue(hour.wave_height)) + WindScore(ScoringValue(hour.wind_speed))

Qualifies(hour, min_wave_height) == ScoringValue(hour.wave_height) >= min_wave_height

\* a slot that displays the values used for scoring
SlotOfScoringValues(hour) ==
    [ time              |-> hour.time,
      wave_height       |-> Num(ScoringValue(hour.wave_height)),
      wave_period       |-> hour.wave_period,
      wind_speed        |-> Num(ScoringValue(hour.wind_speed)),
      wind_direction    |-> hour.wind_direction,
      water_temperature |-> hour.water_temperature,
      tide              |-> hour.tide,
      score             |-> TotalScore(hour) ]

Slot(hour) ==
    [ time              |-> hour.time,
      wave_height       |-> hour.wave_height,
      wave_period       |-> hour.wave_period,
      wind_speed        |-> hour.wind_speed,
      wind_direction    |-> hour.wind_direction,
      water_temperature |-> hour.water_temperature,
      tide              |-> hour.tide,
      score             |-> TotalScore(hour) ]

\* best_times after the loop of lines 449-472
Candidates(hourly_conditions, min_wave_height) ==
    LET good == SelectSeq(hourly_conditions, LAMBDA h : Qualifies(h, min_wave_height))
    IN  [i \in 1..Len(good) |-> Slot(good[i])]

\* a sort that puts a slot in front of the earlier slots of equal score
InsertBeforeEqual(sorted, slot) ==
    LET before == SelectSeq(sorted, LAMBDA x : x.score > slot.score)
        after == SelectSeq(sorted, LAMBDA x : x.score <= slot.score)
    IN  before \o <<slot>> \o after

\* list.sort(key=score, reverse=True): stable, equal scores keep their order
InsertByScore(sorted, slot) ==
    LET before == SelectSeq(sorted, LAMBDA x : x.score >= slot.score)
        after == SelectSeq(sorted, LAMBDA x : x.score < slot.score)
    IN  before \o <<slot>> \o after

RECURSIVE SortByScore(_)
SortByScore(slots) ==
    IF slots = <<>> THEN <<>>
    ELSE InsertByScore(SortByScore(SubSeq(slots, 1, Len(slots) - 1)), slots[Len(slots)])

TopN == 5

KeepAll(s) == s
Head5(s) == SubSeq(s, 1, Min(TopN, Len(s)))

\* the members best_times, total_good_hours, min_wave_height of lines 477-484
Analyse(hourly_conditions, min_wave_height) ==
    LET best_times == SortByScore(Candidates(hourly_conditions, min_wave_height))
    IN  [ best_times       |-> Head5(best_times),
          total_good_hours |-> Len(best_times),
          min_wave_height  |-> min_wave_height ]

(***************************************************************************)
(* The cache file.  cache_file.state is what is on disk:                   *)
(*   "absent"      no file,                                                *)
(*   "unreadable"  open() raises an OSError other than FileNotFoundError   *)
(*                 (permissions, a directory) or the bytes are not UTF-8,  *)
(*   "notjson"     json.load raises JSONDecodeError,                       *)
(*   "list"        valid JSON, a list (or a string): `in` works, item      *)
(*                 assignment by a str key raises TypeError,               *)
(*   "scalar"      valid JSON, null / a number / a boolean: `in` raises    *)
(*                 TypeError,                                              *)
(*   "object"      a JSON object: cache_file.entries, key -> entry.        *)
(* An entry is [data, tide_data, timestamp]; timestamp = None stands for   *)
(* an entry that has no 'timestamp' member.                                *)
(***************************************************************************)
EmptyEntries == <<>>

AbsentFile == [state |-> "absent", entries |-> EmptyEntries]

\* _load_cache: [exc, shape, entries]
_load_cache(file) ==
    CASE file.state = "unreadable" -> [exc |-> "OSError", shape |-> "dict", entries |-> EmptyEntries]
      [] file.state \in {"absent", "notjson"} -> [exc |-> "none", shape |-> "dict", entries |-> EmptyEntries]
      [] file.state \in {"list", "scalar"} -> [exc |-> "none", shape |-> file.state, entries |-> EmptyEntries]
      [] OTHER -> [exc |-> "none", shape |-> "dict", entries |-> file.entries]

\* _save_cache(cache) under the outcome `save` of open()/json.dump:
\*   "ok"          the whole store is rewritten,
\*   "open_fails"  open(.., 'w') raises: the file is left as it was,
\*   "dump_fails"  json.dump raises after open() truncated the file.
\* Every failure is printed and swallowed.
_save_cache(file, entries, save) ==
    CASE save = "ok" -> [state |-> "object", entries |-> entries]
      [] save = "dump_fails" -> [state |-> "notjson", entries |-> EmptyEntries]
      [] OTHER -> file

Digits == "0123456789"

RECURSIVE NatStr(_)
NatStr(n) == IF n < 10 THEN CharAt(Digits, n + 1) ELSE NatStr(n \div 10) \o CharAt(Digits, (n % 10) + 1)

RECURSIVE StripZeros(_)
StripZeros(s) ==
    IF Len(s) > 1 /\ SubSeq(s, Len(s), Len(s)) = "0" THEN StripZeros(SubSeq(s, 1, Len(s) - 1)) ELSE s

\* the fraction of a coordinate, four places with the trailing zeros dropped
FractionStr(f) == StripZeros(SubSeq(NatStr(10000 + f), 2, 5))

\* str() of a float coordinate, x in 1/10000 degree: 340259 is "34.0259",
\* -1172500 is "-117.25", 340000 is "34.0"
FloatStr(x) ==
    LET a == IF x < 0 THEN 0 - x ELSE x
    IN  (IF x < 0 THEN "-" ELSE "") \o NatStr(a \div 10000) \o "." \o FractionStr(a % 10000)

\* a key that leaves the date out
CacheKeyWithoutDate(lat, lng, target_date) == FloatStr(lat) \o "," \o FloatStr(lng)

\* lines 247-248: date_suffix = f"_{target_date}" if target_date else "",
\* cache_key = f"{lat},{lng}{date_suffix}"; target_date optional
CacheKey(lat, lng, target_date) ==
    LET date_suffix == IF target_date # None /\ target_date[1] # "" THEN "_" \o target_date[1] ELSE ""
    IN  FloatStr(lat) \o "," \o FloatStr(lng) \o date_suffix

\* a _save_cache that lets the failure of the write out
SaveExcPropagated(save) == IF save = "ok" THEN "none" ELSE "OSError"

\* the exception that leaves _save_cache: lines 131-133 catch Exception,
\* print it and return
SaveExc(save) == "none"

\* a store that is rewritten with the new entry alone
PutAlone(entries, k, v) == [x \in {k} |-> v]

\* line 308: cache[cache_key] = cache_data
Put(entries, k, v) == [x \in DOMAIN entries \cup {k} |-> IF x = k THEN v ELSE entries[x]]

(***************************************************************************)
(* _get_noaa_tide_data.  `provider` is what Station(..).get_data does:     *)
(* [kind |-> "samples", heights], [kind |-> "empty"], [kind |-> "raises"]. *)
(***************************************************************************)
TideConditions(heights) ==
    [i \in 1..Len(heights) |-> [time |-> heights[i].time, tide |-> MetersToFeet2(heights[i].hourly_height)]]

_get_noaa_tide_data(beach_name, target_date, provider) ==
    LET station_id == LookupStation(beach_name)
    IN  IF station_id = None
        THEN [kind |-> "error", error |-> "No tide station found", calls |-> 0]
        ELSE IF provider.kind = "raises"
        THEN [kind |-> "error", error |-> "Error fetching NOAA tide data", calls |-> 1]
        ELSE IF provider.kind = "empty"
        THEN [kind |-> "error", error |-> "No tide data available for this date", calls |-> 1]
        ELSE [kind |-> "samples", tide_conditions |-> TideConditions(provider.heights),
              station_id |-> station_id[1], calls |-> 1]

\* the tide dictionary as stored and returned (without the model's call count)
TideData(t) ==
    IF t.kind = "samples"
    THEN [kind |-> "samples", tide_conditions |-> t.tide_conditions, station_id |-> t.station_id]
    ELSE [kind |-> "error", error |-> t.error]

(***************************************************************************)
(* fetch_surf_data(beach_name, lat, lng, target_date) at time current_time *)
(* with the file `file` on disk, under the environment env =               *)
(*   [weather, tide, save]:                                                *)
(*   weather  [kind |-> "ok", data]            200 with a JSON body,       *)
(*            [kind |-> "badjson"]             200, response.json() raises,*)
(*            [kind |-> "status", code, text]  any other status,           *)
(*            [kind |-> "neterr"]              RequestException (timeout..)*)
(* Returns [ret, file, weather_calls, tide_calls, loads, saves, key, env]: *)
(* the return value (kind "raised": an exception leaves the call), the     *)
(* file afterwards, the calls made, the cache key (optional) and the part  *)
(* of env that was consumed.                                               *)
(***************************************************************************)
Unused == [kind |-> "unused"]
NoEnv == [weather |-> Unused, tide |-> Unused, save |-> "unused"]

Outcome(ret, file, w, t, l, sv, key, env) ==
    [ret |-> ret, file |-> file, weather_calls |-> w, tide_calls |-> t, loads |-> l, saves |-> sv,
     key |-> key, env |-> env]

Coordinates(lat, lng) == [lat |-> lat, lng |-> lng]

ErrorPayloadWithoutDetail(msg, detail, beach_name, lat, lng) ==
    [kind |-> "error", error |-> [msg |-> msg, detail |-> <<>>], beach_name |-> beach_name,
     coordinates |-> Coordinates(lat, lng)]

\* an error payload; detail is <<>> or <<status_code, response.text>>
ErrorPayload(msg, detail, beach_name, lat, lng) ==
    [kind |-> "error", error |-> [msg |-> msg, detail |-> detail], beach_name |-> beach_name,
     coordinates |-> Coordinates(lat, lng)]

Raised(exc) == [kind |-> "raised", exc |-> exc]

\* lines 263-337: the upstream call and what follows it
FetchUpstream(beach_name, lat, lng, target_date, current_time, file, cache, cache_key, env) ==
    LET used == [NoEnv EXCEPT !.weather = env.weather]
        key == Some(cache_key)
    IN  CASE env.weather.kind = "neterr" ->
               Outcome(ErrorPayload("Network error", <<>>, beach_name, lat, lng),
                       file, 1, 0, 1, 0, key, used)
          [] env.weather.kind = "badjson" ->
               Outcome(ErrorPayload("Unexpected error", <<>>, beach_name, lat, lng),
                       file, 1, 0, 1, 0, key, used)
          [] env.weather.kind = "status" ->
               Outcome(ErrorPayload("API request failed with status",
                                    <<env.weather.code, env.weather.text>>, beach_name, lat, lng),
                       file, 1, 0, 1, 0, key, used)
          [] OTHER ->
               LET t == _get_noaa_tide_data(beach_name, target_date, env.tide)
                   usedT == [used EXCEPT !.tide = IF t.calls = 0 THEN Unused ELSE env.tide]
                   cache_data == [data |-> env.weather.data, tide_data |-> TideData(t),
                                  timestamp |-> Some(current_time)]
               IN  IF cache.shape # "dict"
                   THEN \* cache[cache_key] = cache_data raises TypeError, caught at line 332
                        Outcome(ErrorPayload("Unexpected error", <<>>, beach_name, lat, lng),
                                file, 1, t.calls, 1, 0, key, usedT)
                   ELSE IF SaveExc(env.save) # "none"
                   THEN \* an exception out of line 310 would be caught at line 332
                        Outcome(ErrorPayload("Unexpected error", <<>>, beach_name, lat, lng),
                                _save_cache(file, Put(cache.entries, cache_key, cache_data), env.save),
                                1, t.calls, 1, 1, key, [usedT EXCEPT !.save = env.save])
                   ELSE Outcome([kind |-> "data", beach_name |-> beach_name,
                                 coordinates |-> Coordinates(lat, lng),
                                 data |-> env.weather.data, tide_data |-> TideData(t),
                                 cached |-> FALSE, timestamp |-> current_time],
                                _save_cache(file, Put(cache.entries, cache_key, cache_data), env.save),
                                1, t.calls, 1, 1, key, [usedT EXCEPT !.save = env.save])

FreshInclusive(current_time, timestamp) == current_time - timestamp <= cache_expiry

\* a lookup that treats every stored entry as expired
NeverFresh(current_time, timestamp) == FALSE

\* line 253: (current_time - cached_data['timestamp']) < self.cache_expiry
Fresh(current_time, timestamp) == current_time - timestamp < cache_expiry

\* lines 244-261: the cache lookup
FetchCached(beach_name, lat, lng, target_date, current_time, file, env) ==
    LET cache == _load_cache(file)
        cache_key == CacheKey(lat, lng, target_date)
        key == Some(cache_key)
    IN  IF cache.exc # "none"
        THEN Outcome(Raised(cache.exc), file, 0, 0, 1, 0, key, NoEnv)
        ELSE IF cache.shape = "scalar"
        THEN Outcome(Raised("TypeError"), file, 0, 0, 1, 0, key, NoEnv)
        ELSE IF cache.shape = "dict" /\ cache_key \in DOMAIN cache.entries
        THEN LET cached_data == cache.entries[cache_key]
             IN  IF cached_data.timestamp = None
                 THEN Outcome(Raised("KeyError"), file, 0, 0, 1, 0, key, NoEnv)
                 ELSE IF Fresh(current_time, cached_data.timestamp[1])
                 THEN Outcome([kind |-> "data", beach_name |-> beach_name,
                               coordinates |-> Coordinates(lat, lng),
                               data |-> cached_data.data, tide_data |-> cached_data.tide_data,
                               cached |-> TRUE, timestamp |-> cached_data.timestamp[1]],
                              file, 0, 0, 1, 0, key, NoEnv)
                 ELSE FetchUpstream(beach_name, lat, lng, target_date, current_time, file, cache, cache_key, env)
        ELSE FetchUpstream(beach_name, lat, lng, target_date, current_time, file, cache, cache_key, env)

\* lat, lng, target_date optional
fetch_surf_data(beach_name, lat, lng, target_date, current_time, file, env) ==
    IF lat = None \/ lng = None
    THEN LET coords == LookupCoordinates(beach_name)
         IN  IF coords = None
             THEN Outcome([kind |-> "error",
                           error |-> [msg |-> "Beach not found in database", detail |-> <<>>],
                           beach_name |-> beach_name],
                          file, 0, 0, 0, 0, None, NoEnv)
             ELSE FetchCached(beach_name, coords[1], coords[2], target_date, current_time, file, env)
    ELSE FetchCached(beach_name, lat[1], lng[1], target_date, current_time, file, env)

(***************************************************************************)
(* The weather payload `data` is [shape, hours]:                           *)
(*   "dict"     a JSON object with an 'hours' list,                        *)
(*   "nohours"  a JSON object without 'hours',                             *)
(*   "notdict"  a JSON list (no .get: AttributeError; subscripting it by   *)
(*              'hours' raises TypeError).                                 *)
(***************************************************************************)
T0 == "2024-01-01T00:00:00+00:00"
T1 == "2024-01-01T01:00:00+00:00"
D1 == "2024-01-01"

\* an hour of the upstream payload; the pass-through parameters are fixed
RawHour(time, wave, wind, water, sea) ==
    [ time |-> time, waveHeight |-> wave, waveDirection |-> Num(27000), wavePeriod |-> Num(1200),
      windSpeed |-> wind, windDirection |-> NA, waterTemperature |-> water,
      airTemperature |-> Num(2000), pressure |-> Num(101300), humidity |-> NA,
      visibility |-> Num(1000), cloudCover |-> Num(0), precipitation |-> Num(0),
      seaLevel |-> sea ]

\* A payload in the state is the name of a JSON document; Body gives its
\* content.  "A" and "B" are well formed; the others are 200 answers with a
\* JSON body of an unexpected shape.
Body(data) ==
    CASE data = "A" ->
           [shape |-> "dict",
            hours |-> << RawHour(Some(T0), Num(91), Num(90), Num(0), Num(50)),
                         RawHour(Some(T1), NA, NA, NA, NA) >>]
      [] data = "B" ->
           [shape |-> "dict", hours |-> << RawHour(Some(T0), Num(30), Num(224), Num(1500), NA) >>]
      [] data = "Text" ->
           [shape |-> "dict", hours |-> << RawHour(Some(T0), JText, Num(90), Num(0), Num(50)) >>]
      [] data = "Null" ->
           [shape |-> "dict", hours |-> << RawHour(Some(T0), Num(91), JNull, Num(0), Num(50)) >>]
      [] data = "Empty" -> [shape |-> "dict", hours |-> <<>>]
      [] data = "NoHours" -> [shape |-> "nohours", hours |-> <<>>]
      [] OTHER -> [shape |-> "notdict", hours |-> <<>>]

Payloads == {"A", "B"}
MalformedPayloads == {"Text", "Null", "Empty", "NoHours", "NotDict"}

\* except (KeyError, IndexError, TypeError), lines 420 and 567
ParseCaught == {"KeyError", "IndexError", "TypeError"}

ParseError(result) ==
    [kind |-> "error", error |-> [msg |-> "Error parsing API response", detail |-> <<>>],
     beach_name |-> result.beach_name, coordinates |-> result.coordinates]

\* get_hourly_conditions, lines 353-425, applied to the result of fetch_surf_data
HourlyOf(result) ==
    IF result.kind # "data" THEN result
    ELSE IF Body(result.data).shape = "notdict" THEN Raised("AttributeError")
    ELSE LET hours == IF Body(result.data).shape = "nohours" THEN <<>> ELSE Body(result.data).hours
             exc == NormalizeHoursExc(hours, result.tide_data)
             hourly_conditions == NormalizeHours(hours, result.tide_data)
         IN  IF exc \in ParseCaught THEN ParseError(result)
             ELSE IF exc # "none" THEN Raised(exc)
             ELSE [kind |-> "hourly", beach_name |-> result.beach_name,
                   coordinates |-> result.coordinates, cached |-> result.cached,
                   timestamp |-> result.timestamp,
                   hourly_conditions |-> hourly_conditions,
                   total_hours |-> Len(hourly_conditions)]

get_hourly_conditions(beach_name, lat, lng, target_date, current_time, file, env) ==
    LET o == fetch_surf_data(beach_name, lat, lng, target_date, current_time, file, env)
    IN  [o EXCEPT !.ret = HourlyOf(o.ret)]

\* the 'current_conditions' dictionary of lines 551-565
CurrentConditions(h) ==
    [ wave_height |-> h.wave_height, wave_direction |-> h.wave_direction,
      wave_period |-> h.wave_period, wind_speed |-> h.wind_speed,
      wind_direction |-> h.wind_direction, water_temperature |-> h.water_temperature,
      air_temperature |-> h.air_temperature, pressure |-> h.pressure, humidity |-> h.humidity,
      visibility |-> h.visibility, cloud_cover |-> h.cloud_cover,
      precipitation |-> h.precipitation, tide |-> h.tide ]

\* get_current_conditions, lines 506-572, applied to the result of fetch_surf_data
CurrentOf(result) ==
    IF result.kind # "data" THEN result
    ELSE IF Body(result.data).shape # "dict" \/ Body(result.data).hours = <<>>
    THEN ParseError(result)     \* data['hours'][0]: TypeError, KeyError or IndexError
    ELSE LET current_hour == Body(result.data).hours[1]
             exc == NormalizeHourExc(current_hour, result.tide_data)
         IN  IF exc \in ParseCaught THEN ParseError(result)
             ELSE IF exc # "none" THEN Raised(exc)
             ELSE [kind |-> "current", beach_name |-> result.beach_name,
                   coordinates |-> result.coordinates, cached |-> result.cached,
                   timestamp |-> result.timestamp,
                   current_conditions |->
                       CurrentConditions(NormalizeHour(current_hour, result.tide_data))]

get_current_conditions(beach_name, lat, lng, target_date, current_time, file, env) ==
    LET o == fetch_surf_data(beach_name, lat, lng, target_date, current_time, file, env)
    IN  [o EXCEPT !.ret = CurrentOf(o.ret)]

\* get_best_surf_times, lines 442-490, applied to the result of get_hourly_conditions
BestOf(result, min_wave_height) ==
    IF result.kind # "hourly" THEN result
    ELSE LET a == Analyse(result.hourly_conditions, min_wave_height)
         IN  [kind |-> "best", beach_name |-> result.beach_name,
              coordinates |-> result.coordinates, cached |-> result.cached,
              best_times |-> a.best_times, total_good_hours |-> a.total_good_hours,
              min_wave_height |-> a.min_wave_height]

\* line 440: result = self.get_hourly_conditions(beach_name, lat, lng)
get_best_surf_times(beach_name, lat, lng, min_wave_height, target_date, current_time, file, env) ==
    LET o == get_hourly_conditions(beach_name, lat, lng, None, current_time, file, env)
    IN  [o EXCEPT !.ret = BestOf(o.ret, min_wave_height)]

(***************************************************************************)
(* Inputs of the pipeline specification                                    *)
(***************************************************************************)
MaxCalls == 2
MaxTicks == 2

WeatherOutcomes ==
    {[kind |-> "ok", data |-> d] : d \in Payloads}
    \cup {[kind |-> "badjson"], [kind |-> "neterr"],
          [kind |-> "status", code |-> 500, text |-> "Internal Server Error"]}

TideOutcomes ==
    {[kind |-> "samples", heights |-> <<[time |-> T0, hourly_height |-> 100]>>],
     [kind |-> "raises"]}

SaveOutcomes == {"ok", "open_fails", "dump_fails"}

Envs == [weather : WeatherOutcomes, tide : TideOutcomes, save : SaveOutcomes]

Request(beach_name, lat, lng, target_date) ==
    [beach_name |-> beach_name, lat |-> lat, lng |-> lng, target_date |-> target_date]

Requests ==
    { Request("Malibu", None, None, None),
      Request("Malibu", None, None, Some(D1)),
      Request("trestles", None, None, None),
      Request("san onofre", None, None, None),
      Request("atlantis", None, None, None),
      Request("atlantis", Some(340259), Some(-1187798), None) }

\* the clock advances by one second or by one second less than the expiry window
TickSteps == {1, cache_expiry - 1}

DamagedStates == {"absent", "unreadable", "notjson", "list", "scalar"}

(***************************************************************************)
(* State machine of the fetcher and its cache file                         *)
(***************************************************************************)
Idle == [op |-> "none"]

Record(op, req, o) == [op |-> op, req |-> req, at |-> now, pre |-> cache_file, out |-> o]

ThreadIds == {1, 2}

HarnessInit ==
    /\ name_in = ""
    /\ resolved = Idle
    /\ hours_in = <<>>
    /\ ranked = Idle
    /\ threads = [t \in ThreadIds |-> [pc |-> "idle"]]
    /\ disk = <<>>
    /\ fetched = {}

Init ==
    /\ cache_file = AbsentFile
    /\ now = 0
    /\ ticks = 0
    /\ calls = 0
    /\ last = Idle
    /\ api = Idle
    /\ HarnessInit

Harness == <<name_in, resolved, hours_in, ranked, threads, disk, fetched>>

\* time passes
Tick(d) ==
    /\ ticks < MaxTicks
    /\ now' = now + d
    /\ ticks' = ticks + 1
    /\ UNCHANGED <<cache_file, calls, last, api, Harness>>

\* the environment replaces or removes the cache file
Damage(st) ==
    /\ calls < MaxCalls
    /\ cache_file.state # st
    /\ cache_file' = [state |-> st, entries |-> EmptyEntries]
    /\ UNCHANGED <<now, ticks, calls, last, api, Harness>>

\* the environment leaves an entry of the file without its 'timestamp' member
StripTimestamp(k) ==
    /\ calls < MaxCalls
    /\ cache_file.state = "object"
    /\ k \in DOMAIN cache_file.entries
    /\ cache_file.entries[k].timestamp # None
    /\ cache_file' = [cache_file EXCEPT !.entries[k].timestamp = None]
    /\ UNCHANGED <<now, ticks, calls, last, api, Harness>>

Called(op, req, o) ==
    /\ calls < MaxCalls
    /\ calls' = calls + 1
    /\ cache_file' = o.file
    /\ last' = Record(op, req, o)
    /\ UNCHANGED <<now, ticks, api, Harness>>

\* the parts of env that the call does not consume are the default ones, so
\* that one call is one step
DefaultEnv ==
    [weather |-> [kind |-> "neterr"], tide |-> [kind |-> "raises"], save |-> "ok"]

Canonical(o, env) ==
    /\ o.env.weather = Unused => env.weather = DefaultEnv.weather
    /\ o.env.tide = Unused => env.tide = DefaultEnv.tide
    /\ o.env.save = "unused" => env.save = DefaultEnv.save

Fetch(req, env) ==
    LET o == fetch_surf_data(req.beach_name, req.lat, req.lng, req.target_date, now, cache_file, env)
    IN  /\ calls < MaxCalls
        /\ Canonical(o, env)
        /\ Called("fetch_surf_data", req, o)

Next ==
    \/ \E d \in TickSteps : Tick(d)
    \/ \E st \in DamagedStates : Damage(st)
    \/ \E k \in DOMAIN cache_file.entries : StripTimestamp(k)
    \/ \E req \in Requests, env \in Envs : Fetch(req, env)

Spec == Init /\ [][Next]_vars

(***************************************************************************)
(* State machine of the four public operations, over well-formed and       *)
(* malformed upstream payloads (specification SpecOps)                     *)
(***************************************************************************)
OpsWeather ==
    {[kind |-> "ok", data |-> d] : d \in {"A"} \cup MalformedPayloads}
    \cup {[kind |-> "neterr"], [kind |-> "status", code |-> 503, text |-> "Service Unavailable"]}

\* the tide provider answers with samples, with an empty frame or raises
OpsTideOutcomes == TideOutcomes \cup {[kind |-> "empty"]}

OpsEnvs == [weather : OpsWeather, tide : OpsTideOutcomes, save : {"ok"}]

\* "san onofre" has coordinates and no tide station
OpsRequests ==
    { Request("Malibu", None, None, None),
      Request("Malibu", None, None, Some(D1)),
      Request("san onofre", None, None, None),
      Request("atlantis", None, None, None) }

\* min_wave_height, in tenths of a foot: the default 2.0 and 0
MinWaveHeights == {20, 0}

OpsFetch(req, env) ==
    LET o == fetch_surf_data(req.beach_name, req.lat, req.lng, req.target_date, now, cache_file, env)
    IN  /\ calls < MaxCalls
        /\ Canonical(o, env)
        /\ Called("fetch_surf_data", req, o)

Hourly(req, env) ==
    LET o == get_hourly_conditions(req.beach_name, req.lat, req.lng, req.target_date, now, cache_file, env)
    IN  /\ calls < MaxCalls
        /\ Canonical(o, env)
        /\ Called("get_hourly_conditions", req, o)

Current(req, env) ==
    LET o == get_current_conditions(req.beach_name, req.lat, req.lng, req.target_date, now, cache_file, env)
    IN  /\ calls < MaxCalls
        /\ Canonical(o, env)
        /\ Called("get_current_conditions", req, o)

BestTimes(req, min_wave_height, env) ==
    LET o == get_best_surf_times(req.beach_name, req.lat, req.lng, min_wave_height,
                                 req.target_date, now, cache_file, env)
    IN  /\ calls < MaxCalls
        /\ Canonical(o, env)
        /\ Called("get_best_surf_times", req, o)

NextOps ==
    \/ \E st \in DamagedStates : Damage(st)
    \/ \E k \in DOMAIN cache_file.entries : StripTimestamp(k)
    \/ \E req \in OpsRequests, env \in OpsEnvs : OpsFetch(req, env)
    \/ \E req \in OpsRequests, env \in OpsEnvs : Hourly(req, env)
    \/ \E req \in OpsRequests, env \in OpsEnvs : Current(req, env)
    \/ \E req \in OpsRequests, env \in OpsEnvs, m \in MinWaveHeights : BestTimes(req, m, env)

SpecOps == Init /\ [][NextOps]_vars

(***************************************************************************)
(* The REST facade, src/surf_api.py: GET /api/surf/{beach_name}/{date}     *)
(* (specification SpecApi).  The secondary cache service answers the two   *)
(* GETs of one request with sg and ai:                                     *)
(*   [kind |-> "unreachable"]  requests.get or response.json() raises,     *)
(*   [kind |-> "miss"]         a status other than 200, or 200 with an     *)
(*                             empty (falsy) JSON body,                    *)
(*   [kind |-> "notdict"]      200 with a non-empty JSON list,             *)
(*   [kind |-> "hit"]          200 with a stored document.                 *)
(* The upstream, the tide provider and the disk answer every fetcher call  *)
(* of one request alike (env).                                             *)
(***************************************************************************)
DigitValue(c) == (CHOOSE i \in 1..Len(Digits) : CharAt(Digits, i) = c) - 1
AllDigits(s) == \A i \in 1..Len(s) : str_in(CharAt(s, i), Digits)

RECURSIVE ToNat(_)
ToNat(s) ==
    IF Len(s) = 0 THEN 0
    ELSE 10 * ToNat(SubSeq(s, 1, Len(s) - 1)) + DigitValue(CharAt(s, Len(s)))

IsLeap(y) == (y % 4 = 0 /\ y % 100 # 0) \/ y % 400 = 0

DaysIn(y, m) ==
    IF m = 2 THEN (IF IsLeap(y) THEN 29 ELSE 28)
    ELSE IF m \in {4, 6, 9, 11} THEN 30 ELSE 31

\* %m matches 1[0-2]|0[1-9]|[1-9]
MonthText(s) == Len(s) \in {1, 2} /\ AllDigits(s) /\ ToNat(s) \in 1..12
\* %d matches 3[0-1]|[1-2]\d|0[1-9]|[1-9]| [1-9]
DayDigits(s) == IF Len(s) = 2 /\ CharAt(s, 1) = " " THEN SubSeq(s, 2, 2) ELSE s
DayText(s) == Len(s) \in {1, 2} /\ AllDigits(DayDigits(s)) /\ ToNat(DayDigits(s)) \in 1..31

\* line 53: datetime.strptime(date, '%Y-%m-%d') does not raise ValueError
strptime_ok(date) ==
    LET dashes == {i \in 1..Len(date) : CharAt(date, i) = "-"}
    IN  /\ Cardinality(dashes) = 2
        /\ LET i == CHOOSE x \in dashes : \A z \in dashes : x <= z
               j == CHOOSE x \in dashes : \A z \in dashes : x >= z
               Y == SubSeq(date, 1, i - 1)
               m == SubSeq(date, i + 1, j - 1)
               d == SubSeq(date, j + 1, Len(date))
           IN  /\ Len(Y) = 4 /\ AllDigits(Y) /\ ToNat(Y) >= 1
               /\ MonthText(m)
               /\ DayText(d)
               /\ ToNat(DayDigits(d)) <= DaysIn(ToNat(Y), ToNat(m))

\* lines 79-86: current conditions taken from the first hour of a stored forecast
FirstHourConditions(first_hour) ==
    [ wave_height |-> first_hour.wave_height, wave_period |-> first_hour.wave_period,
      wind_speed |-> first_hour.wind_speed, water_temperature |-> first_hour.water_temperature,
      air_temperature |-> first_hour.air_temperature, tide |-> first_hour.tide ]

\* the document the secondary cache holds for a request it answers with a hit
SecondaryDoc ==
    [hourly_forecast |-> NormalizeHours(Body("B").hours, [kind |-> "empty"]),
     best_surf_times |-> <<>>]

\* min_wave_height: float = 2.0, in tenths of a foot
DefaultMinWaveHeight == 20

FetcherCall(op, o) == [op |-> op, out |-> o]

\* the file after the calls cs, and whether an exception left the last of them
After(cs) == cs[Len(cs)].out.file
Stopped(cs) == cs[Len(cs)].out.ret.kind = "raised"

\* line 101
Call1(beach_name, date, current_time, file, env) ==
    << FetcherCall("get_current_conditions",
                   get_current_conditions(beach_name, None, None, Some(date), current_time, file, env)) >>
\* line 103
Call2(cs, beach_name, date, current_time, env) ==
    IF Stopped(cs) THEN cs
    ELSE Append(cs, FetcherCall("get_hourly_conditions",
                    get_hourly_conditions(beach_name, None, None, Some(date), current_time, After(cs), env)))
\* line 105
Call3(cs, beach_name, date, current_time, env) ==
    IF Stopped(cs) THEN cs
    ELSE Append(cs, FetcherCall("get_best_surf_times",
                    get_best_surf_times(beach_name, None, None, DefaultMinWaveHeight, Some(date),
                                        current_time, After(cs), env)))
\* line 113
Call4(cs, beach_name, date, current_time, env) ==
    IF Stopped(cs) THEN cs
    ELSE Append(cs, FetcherCall("fetch_surf_data",
                    fetch_surf_data(beach_name, None, None, Some(date), current_time, After(cs), env)))

\* lines 101-113: the four fetcher calls of the fresh path; an exception that
\* leaves one of them ends the sequence
FreshCalls(beach_name, date, current_time, file, env) ==
    Call4(Call3(Call2(Call1(beach_name, date, current_time, file, env),
                      beach_name, date, current_time, env),
                beach_name, date, current_time, env),
          beach_name, date, current_time, env)

\* `surf_data_result.get('data', {})` when 'error' is not in the result
SurfDataForAi(ret) == IF ret.kind = "data" THEN Some(ret.data) ELSE None

\* the text of the summarizer for (beach_name, surf_data, date), or the stored text
Generated(surf_data) == [source |-> "generated", surf_data |-> surf_data]
StoredText == [source |-> "stored", surf_data |-> None]

HttpError(status) == [status |-> status]

ApiOutcome(response, file, fetcher_calls, fresh, sg, ai, sg_posts, ai_posts) ==
    [response |-> response, file |-> file, fetcher_calls |-> fetcher_calls, fresh |-> fresh,
     sg |-> sg, ai |-> ai, sg_posts |-> sg_posts, ai_posts |-> ai_posts]

\* lines 145-213: the AI texts and the response
Respond(beach_name, date, current_conditions, hourly_forecast, best_surf_times, surf_data_for_ai, file, fetcher_calls, fresh, sg, ai) ==
    LET text == IF ai.kind = "hit" THEN StoredText ELSE Generated(surf_data_for_ai)
    IN  ApiOutcome([status |-> 200, beachName |-> beach_name, date |-> date,
                    currentConditions |-> current_conditions,
                    hourlyForecast |-> hourly_forecast,
                    bestSurfTimes |-> best_surf_times,
                    aiAnalysis |-> text, oneSentenceSummary |-> text],
                   file, fetcher_calls, fresh, sg, ai,
                   IF fresh THEN 1 ELSE 0,
                   IF ai.kind = "miss" THEN 1 ELSE 0)

\* lines 69-93, the stored forecast is used; an exception of fetch_surf_data
\* (line 91) is caught at line 94
StoredResponse(o, beach_name, date, sg, ai) ==
    Respond(beach_name, date,
            IF SecondaryDoc.hourly_forecast # <<>>
            THEN Some(FirstHourConditions(SecondaryDoc.hourly_forecast[1])) ELSE None,
            SecondaryDoc.hourly_forecast, SecondaryDoc.best_surf_times, SurfDataForAi(o.ret),
            o.file, << FetcherCall("fetch_surf_data", o) >>, FALSE, sg, ai)

\* lines 98-143, after the fetcher calls cs; an exception that left one of them
\* is caught at line 220
FreshResponse(cs, beach_name, date, sg, ai) ==
    IF Len(cs) < 4 \/ Stopped(cs)
    THEN ApiOutcome(HttpError(500), After(cs), cs, TRUE, sg, Unused, 0, 0)
    ELSE Respond(beach_name, date,
                 IF cs[1].out.ret.kind = "current"
                 THEN Some(cs[1].out.ret.current_conditions) ELSE None,
                 IF cs[2].out.ret.kind = "hourly" THEN cs[2].out.ret.hourly_conditions ELSE <<>>,
                 IF cs[3].out.ret.kind = "best" THEN cs[3].out.ret.best_times ELSE <<>>,
                 SurfDataForAi(cs[4].out.ret),
                 After(cs), cs, TRUE, sg, ai)

\* get_surf_data, lines 46-222
get_surf_data(beach_name, date, current_time, file, sg, ai, env) ==
    IF ~strptime_ok(date)
    THEN ApiOutcome(HttpError(400), file, <<>>, FALSE, Unused, Unused, 0, 0)
    ELSE IF sg.kind = "hit"
    THEN StoredResponse(fetch_surf_data(beach_name, None, None, Some(date), current_time, file, env),
                        beach_name, date, sg, ai)
    ELSE IF sg.kind = "notdict"
    THEN \* line 71 has set stormglass_cached when line 73 raises AttributeError
         Respond(beach_name, date, None, <<>>, <<>>, None, file, <<>>, FALSE, sg, ai)
    ELSE FreshResponse(FreshCalls(beach_name, date, current_time, file, env),
                       beach_name, date, sg, ai)

SecondaryOutcomes == {[kind |-> k] : k \in {"unreachable", "miss", "notdict", "hit"}}

ApiBeaches == {"Malibu", "atlantis"}
ApiDates == {D1, "2024-1-1", "01/01/2024"}

ApiWeather ==
    {[kind |-> "ok", data |-> "A"], [kind |-> "ok", data |-> "NotDict"], [kind |-> "neterr"]}

ApiEnvs == [weather : ApiWeather, tide : TideOutcomes, save : {"ok"}]

ApiDamagedStates == {"absent", "unreadable"}

RECURSIVE SumCalls(_, _)
SumCalls(cs, field) == IF cs = <<>> THEN 0 ELSE cs[1].out[field] + SumCalls(Tail(cs), field)

\* the parts of env consumed by at least one fetcher call of the request
UsedEnv(cs, env) ==
    [weather |-> IF \E i \in 1..Len(cs) : cs[i].out.env.weather # Unused THEN env.weather ELSE Unused,
     tide |-> IF \E i \in 1..Len(cs) : cs[i].out.env.tide # Unused THEN env.tide ELSE Unused,
     save |-> IF \E i \in 1..Len(cs) : cs[i].out.env.save # "unused" THEN env.save ELSE "unused"]

DefaultSecondary == [kind |-> "unreachable"]

ApiCanonical(r, used, sg, ai, env) ==
    /\ r.sg = Unused => sg = DefaultSecondary
    /\ r.ai = Unused => ai = DefaultSecondary
    /\ used.weather = Unused => env.weather = DefaultEnv.weather
    /\ used.tide = Unused => env.tide = DefaultEnv.tide
    /\ used.save = "unused" => env.save = DefaultEnv.save

\* what one fetcher call of the request did
CallSummary(c) ==
    [op |-> c.op, key |-> c.out.key, kind |-> c.out.ret.kind,
     weather_calls |-> c.out.weather_calls, tide_calls |-> c.out.tide_calls,
     loads |-> c.out.loads, saves |-> c.out.saves]

\* the request i has been served with outcome r
Served(i, r, used) ==
    /\ ApiCanonical(r, used, i.sg, i.ai, i.env)
    /\ calls' = calls + 1
    /\ cache_file' = r.file
    /\ api' = [op |-> "get_surf_data", beach_name |-> i.beach_name, date |-> i.date,
               at |-> now, pre |-> cache_file,
               sg |-> r.sg, ai |-> r.ai, env |-> used, fresh |-> r.fresh,
               fetcher_calls |-> [k \in 1..Len(r.fetcher_calls) |-> CallSummary(r.fetcher_calls[k])],
               weather_calls |-> SumCalls(r.fetcher_calls, "weather_calls"),
               tide_calls |-> SumCalls(r.fetcher_calls, "tide_calls"),
               loads |-> SumCalls(r.fetcher_calls, "loads"),
               saves |-> SumCalls(r.fetcher_calls, "saves"),
               sg_posts |-> r.sg_posts, ai_posts |-> r.ai_posts,
               response |-> r.response]
    /\ UNCHANGED <<now, ticks, last, Harness>>

UsedBy(r, env) == UsedEnv(r.fetcher_calls, env)

Answered(i, r) == Served(i, r, UsedBy(r, i.env))

ApiRequest(i) ==
    /\ calls < MaxCalls
    /\ Answered(i, get_surf_data(i.beach_name, i.date, now, cache_file, i.sg, i.ai, i.env))

\* the requests and answers of the environment; an answer that no request of
\* the kind consumes is the default one (see ApiCanonical)
ApiInputs ==
    {i \in [beach_name : ApiBeaches, date : ApiDates, sg : SecondaryOutcomes,
            ai : SecondaryOutcomes, env : ApiEnvs] :
        /\ ~strptime_ok(i.date) => i.sg = DefaultSecondary /\ i.ai = DefaultSecondary
        /\ (\/ ~strptime_ok(i.date)
            \/ i.sg.kind = "notdict"
            \/ LookupCoordinates(i.beach_name) = None) => i.env = DefaultEnv}

NextApi ==
    \/ \E st \in ApiDamagedStates : Damage(st)
    \/ \E i \in ApiInputs : ApiRequest(i)

SpecApi == Init /\ [][NextApi]_vars

(***************************************************************************)
(* The resolver on its own (specification SpecResolve): names are resolved *)
(* one after the other; `resolved` keeps the last resolution and the one   *)
(* before it.                                                              *)
(***************************************************************************)
Pipeline == <<cache_file, now, ticks, calls, last, api>>

Resolve(beach_name) ==
    /\ name_in' = beach_name
    /\ resolved' = [op |-> "_get_beach_coordinates", beach_name |-> beach_name,
                    coords |-> LookupCoordinates(beach_name),
                    again |-> resolved.op # "none" /\ name_in = beach_name,
                    before |-> IF resolved.op # "none" THEN resolved.coords ELSE None]
    /\ UNCHANGED <<Pipeline, hours_in, ranked, threads, disk, fetched>>

\* fetch_surf_data by name, without coordinates: an unknown name and a name
\* that contains a key, with the upstream failing or answering
ResolveRequests == {Request("zuma", None, None, None), Request("north malibu", None, None, None)}

ResolveEnvs == {DefaultEnv, [DefaultEnv EXCEPT !.weather = [kind |-> "ok", data |-> "A"]]}

NextResolve ==
    \/ \E beach_name \in ResolveNames : Resolve(beach_name)
    \/ \E req \in ResolveRequests, env \in ResolveEnvs : Fetch(req, env)

SpecResolve == Init /\ [][NextResolve]_vars

(***************************************************************************)
(* The normalizer and the ranker on their own (specification SpecRank):    *)
(* the upstream payload grows hour by hour, and get_hourly_conditions      *)
(* followed by get_best_surf_times is applied to it.  The readings are     *)
(* numbers or absent; the i-th hour is stamped with the i-th hour of D1.   *)
(***************************************************************************)
MaxHours == 6

HourStamp(i) == D1 \o "T0" \o CharAt(Digits, i + 1) \o ":00:00+00:00"

\* waveHeight, windSpeed, waterTemperature, seaLevel of the hours on offer:
\*   0.30 m = 1.0 ft, 0.91 m = 3.0 ft, 2.00 m = 6.6 ft
\*   2.24 m/s = 5.0 mph, 0.90 m/s = 2.0 mph, 10.00 m/s = 22.4 mph
HourMenu ==
    { RawHour(None, Num(30), Num(224), Num(1500), NA),
      RawHour(None, Num(91), Num(90), Num(0), Num(50)),
      RawHour(None, NA, NA, NA, NA),
      RawHour(None, Num(200), Num(1000), NA, Num(-30)) }

RankTides ==
    { [kind |-> "empty"],
      [kind |-> "samples", station_id |-> "9410660",
       tide_conditions |-> << [time |-> HourStamp(1), tide |-> 328] >>] }

AddHour(h) ==
    /\ Len(hours_in) < MaxHours
    /\ hours_in' = Append(hours_in, [h EXCEPT !.time = Some(HourStamp(Len(hours_in) + 1))])
    /\ ranked' = Idle
    /\ UNCHANGED <<Pipeline, name_in, resolved, threads, disk, fetched>>

Rank(tide_data, min_wave_height) ==
    /\ NormalizeHoursExc(hours_in, tide_data) = "none"
    /\ ranked' = [op |-> "get_best_surf_times", hours |-> hours_in, tide_data |-> tide_data,
                  hourly_conditions |-> NormalizeHours(hours_in, tide_data),
                  analysis |-> Analyse(NormalizeHours(hours_in, tide_data), min_wave_height)]
    /\ UNCHANGED <<Pipeline, name_in, resolved, hours_in, threads, disk, fetched>>

NextRank ==
    \/ \E h \in HourMenu : AddHour(h)
    \/ \E tide_data \in RankTides, min_wave_height \in MinWaveHeights : Rank(tide_data, min_wave_height)

SpecRank == Init /\ [][NextRank]_vars

(***************************************************************************)
(* The normalizer on one hour (specification SpecNorm): the readings of    *)
(* the first hour of the payload change one at a time, the tide provider   *)
(* answers, and _get_noaa_tide_data followed by get_hourly_conditions is   *)
(* applied.  Readings are in hundredths of the source unit.                *)
(***************************************************************************)
Readings == {NA, Num(0), Num(100), Num(-30)}

ConvertedParams == {"waveHeight", "windSpeed", "waterTemperature", "airTemperature", "visibility", "seaLevel"}

BlankHour == RawHour(Some(HourStamp(1)), NA, NA, NA, NA)

\* what Station(..).get_data returns for the day: two samples at the hour,
\* one sample at another hour, no row, or an exception
NormProviders ==
    { [kind |-> "samples", heights |-> << [time |-> HourStamp(1), hourly_height |-> 100],
                                          [time |-> HourStamp(1), hourly_height |-> 50] >>],
      [kind |-> "samples", heights |-> << [time |-> HourStamp(2), hourly_height |-> 100] >>],
      [kind |-> "empty"],
      [kind |-> "raises"] }

Observe(param, v, provider) ==
    LET hour_data == [(IF hours_in = <<>> THEN BlankHour ELSE hours_in[1]) EXCEPT ![param] = v]
        tide_data == TideData(_get_noaa_tide_data("Malibu", Some(D1), provider))
    IN  /\ hours_in' = << hour_data >>
        /\ ranked' = [op |-> "get_hourly_conditions", hours |-> << hour_data >>,
                      provider |-> provider, tide_data |-> tide_data,
                      hourly_conditions |-> NormalizeHours(<< hour_data >>, tide_data)]
        /\ UNCHANGED <<Pipeline, name_in, resolved, threads, disk, fetched>>

NextNorm == \E param \in ConvertedParams, v \in Readings, provider \in NormProviders : Observe(param, v, provider)

SpecNorm == Init /\ [][NextNorm]_vars

(***************************************************************************)
(* Concurrent invocations of fetch_surf_data (specification SpecConc).     *)
(* Nothing in the fetcher locks the cache file, so the steps of two        *)
(* invocations interleave at every file operation.  `disk` is the text of  *)
(* the file as a sequence of units of equal width: per entry, in insertion *)
(* order, its key, the hours of its payload, its tide data and its         *)
(* timestamp; after the last entry the closing brace.  open(.., 'w')       *)
(* truncates; json.dump fills a buffer that is written at the writer's own *)
(* offset whenever it is full; close() writes what is left.                *)
(***************************************************************************)
ConcBeaches == {"Malibu", "trestles"}

MaxInvocations == 3

\* units the buffer of a file object holds (io.DEFAULT_BUFFER_SIZE)
BufferUnits == 2

\* the units of one item of the dictionary (lines 303-307)
ItemKinds == <<"key", "hour", "hour", "tide", "ts">>

\* the two hours the weather service answers to invocation number n of thread t
HoursFor(t, n) ==
    LET tag == NatStr(t) \o "." \o NatStr(n) IN <<"h1 of " \o tag, "h2 of " \o tag>>

\* json.dump(cache, file, indent=2): the items in insertion order, then the closing brace
DumpText(items) ==
    [i \in 1..(Len(ItemKinds) * Len(items) + 1) |->
        IF i > Len(ItemKinds) * Len(items)
        THEN [u |-> "end", v |-> "", n |-> 0]
        ELSE LET item == items[((i - 1) \div Len(ItemKinds)) + 1]
                 j == ((i - 1) % Len(ItemKinds)) + 1
             IN  CASE j = 1 -> [u |-> "key", v |-> item[1], n |-> 0]
                   [] j \in {2, 3} -> [u |-> "hour", v |-> item[2].data[j - 1], n |-> 0]
                   [] j = 4 -> [u |-> "tide", v |-> item[2].tide_data, n |-> 0]
                   [] OTHER -> [u |-> "ts", v |-> "", n |-> item[2].timestamp]]

\* _load_cache on the text of the file: json.load of a JSON object (whole
\* items, then the closing brace, nothing after it; a repeated key keeps its
\* first place and its last value), {} when the file is absent or not JSON
LoadText(text) ==
    LET count == (Len(text) - 1) \div Len(ItemKinds)
        is_json == /\ Len(text) % Len(ItemKinds) = 1
                   /\ text[Len(text)].u = "end"
                   /\ \A i \in 1..(Len(text) - 1) : text[i].u = ItemKinds[((i - 1) % Len(ItemKinds)) + 1]
        key_at(g) == text[Len(ItemKinds) * (g - 1) + 1].v
        value_at(g) == [data |-> <<text[Len(ItemKinds) * (g - 1) + 2].v, text[Len(ItemKinds) * (g - 1) + 3].v>>,
                        tide_data |-> text[Len(ItemKinds) * (g - 1) + 4].v,
                        timestamp |-> text[Len(ItemKinds) * (g - 1) + 5].n]
        last_of(g) == CHOOSE h \in g..count :
                          key_at(h) = key_at(g) /\ \A h2 \in (h + 1)..count : key_at(h2) # key_at(g)
        firsts == SelectSeq([g \in 1..count |-> g], LAMBDA g : \A h \in 1..(g - 1) : key_at(h) # key_at(g))
    IN  IF is_json
        THEN [i \in 1..Len(firsts) |-> <<key_at(firsts[i]), value_at(last_of(firsts[i]))>>]
        ELSE <<>>

\* cache[key] = value on a dictionary that keeps insertion order
SetItem(items, key, value) ==
    IF \E i \in 1..Len(items) : items[i][1] = key
    THEN [i \in 1..Len(items) |-> IF items[i][1] = key THEN <<key, value>> ELSE items[i]]
    ELSE Append(items, <<key, value>>)

\* file.write of `chunk` at offset `off`: a gap is filled with NUL bytes
WriteAt(text, off, chunk) ==
    [i \in 1..Max(Len(text), off + Len(chunk)) |->
        IF i > off /\ i <= off + Len(chunk) THEN chunk[i - off]
        ELSE IF i <= Len(text) THEN text[i] ELSE [u |-> "nul", v |-> "", n |-> 0]]

ConcRest == <<cache_file, ticks, last, api, name_in, resolved, hours_in, ranked>>

\* lines 234-261: coordinates, _load_cache, the cache key and the lookup
ConcLoad(t, beach_name) ==
    /\ threads[t].pc \in {"idle", "done"}
    /\ calls < MaxInvocations
    /\ calls' = calls + 1
    /\ LET coords == LookupCoordinates(beach_name)
           cache_key == CacheKey(coords[1], coords[2], None)
           cache == LoadText(disk)
           found == {i \in 1..Len(cache) : cache[i][1] = cache_key}
           cached_data == cache[CHOOSE i \in found : TRUE][2]
       IN  IF found # {} /\ Fresh(now, cached_data.timestamp)
           THEN threads' = [threads EXCEPT ![t] =
                    [pc |-> "done", beach_name |-> beach_name, key |-> cache_key, n |-> calls + 1,
                     cached |-> TRUE, weather_calls |-> 0, ret |-> cached_data]]
           ELSE threads' = [threads EXCEPT ![t] =
                    [pc |-> "request", beach_name |-> beach_name, key |-> cache_key, n |-> calls + 1,
                     cache |-> cache]]
    /\ UNCHANGED <<now, disk, fetched>>
    /\ UNCHANGED ConcRest

\* lines 263-308: the one request, the tide data, cache[cache_key] = {...}
ConcRequest(t) ==
    /\ threads[t].pc = "request"
    /\ LET th == threads[t]
           value == [data |-> HoursFor(t, th.n), tide_data |-> "tide of " \o str_lower(th.beach_name),
                     timestamp |-> now]
       IN  /\ threads' = [threads EXCEPT ![t] =
                   [pc |-> "open", beach_name |-> th.beach_name, key |-> th.key, n |-> th.n,
                    cache |-> SetItem(th.cache, th.key, value), ret |-> value]]
           /\ fetched' = fetched \cup {<<th.key, value>>}
    /\ UNCHANGED <<now, calls, disk>>
    /\ UNCHANGED ConcRest

\* line 130: open(self.cache_file, 'w') truncates the file
ConcOpen(t) ==
    /\ threads[t].pc = "open"
    /\ LET th == threads[t]
       IN  threads' = [threads EXCEPT ![t] =
               [pc |-> "dump", beach_name |-> th.beach_name, key |-> th.key, n |-> th.n,
                text |-> DumpText(th.cache), off |-> 0, ret |-> th.ret]]
    /\ disk' = <<>>
    /\ UNCHANGED <<now, calls, fetched>>
    /\ UNCHANGED ConcRest

\* line 131: json.dump fills the buffer; a full buffer is written out
ConcFlush(t) ==
    /\ threads[t].pc = "dump"
    /\ LET th == threads[t]
       IN  /\ Len(th.text) - th.off > BufferUnits
           /\ disk' = WriteAt(disk, th.off, SubSeq(th.text, th.off + 1, th.off + BufferUnits))
           /\ threads' = [threads EXCEPT ![t].off = th.off + BufferUnits]
    /\ UNCHANGED <<now, calls, fetched>>
    /\ UNCHANGED ConcRest

\* the end of the with block closes the file and writes what the buffer
\* still holds; lines 312-318 return the fresh data
ConcClose(t) ==
    /\ threads[t].pc = "dump"
    /\ LET th == threads[t]
       IN  /\ Len(th.text) - th.off <= BufferUnits
           /\ disk' = WriteAt(disk, th.off, SubSeq(th.text, th.off + 1, Len(th.text)))
           /\ threads' = [threads EXCEPT ![t] =
                   [pc |-> "done", beach_name |-> th.beach_name, key |-> th.key, n |-> th.n,
                    cached |-> FALSE, weather_calls |-> 1, ret |-> th.ret]]
    /\ UNCHANGED <<now, calls, fetched>>
    /\ UNCHANGED ConcRest

NextConc ==
    \/ \E t \in ThreadIds, beach_name \in ConcBeaches : ConcLoad(t, beach_name)
    \/ \E t \in ThreadIds : ConcRequest(t)
    \/ \E t \in ThreadIds : ConcOpen(t)
    \/ \E t \in ThreadIds : ConcFlush(t)
    \/ \E t \in ThreadIds : ConcClose(t)
    \/ \E d \in TickSteps : Tick(d)

SpecConc == Init /\ [][NextConc]_vars

(***************************************************************************)
(* Properties of fetch_surf_data and the cache file (specification Spec)   *)
(***************************************************************************)
IsFetch == last.op = "fetch_surf_data"

\* the call looked its key up in a JSON object that holds a timestamped entry for it
HadEntry ==
    /\ last.op # "none"
    /\ last.out.key # None
    /\ last.pre.state = "object"
    /\ last.out.key[1] \in DOMAIN last.pre.entries
    /\ last.pre.entries[last.out.key[1]].timestamp # None

EntryBefore == last.pre.entries[last.out.key[1]]
AgeBefore == last.at - EntryBefore.timestamp[1]

\* C1: an entry written at time T is returned as a hit (cached = True, no upstream
\* call, the stored payload) by a fetch_surf_data for its key at time T' when
\* T' - T < 86400 seconds, and is a miss (the upstream is called) when T' - T >= 86400.
C1_ExpiryWindow ==
    (IsFetch /\ HadEntry) =>
        /\ AgeBefore < 86400 =>
              /\ last.out.ret.kind = "data"
              /\ last.out.ret.cached
              /\ last.out.weather_calls = 0
              /\ last.out.ret.data = EntryBefore.data
        /\ AgeBefore >= 86400 =>
              /\ last.out.weather_calls = 1
              /\ last.out.ret.kind = "data" => ~last.out.ret.cached

\* a hit one second before the window closes
C1_Witness ==
    /\ IsFetch /\ HadEntry
    /\ AgeBefore = 86399
    /\ last.out.ret.kind = "data" /\ last.out.ret.cached

\* a miss exactly when the window closes
C1_WitnessMiss ==
    /\ IsFetch /\ HadEntry
    /\ AgeBefore = 86400
    /\ last.out.weather_calls = 1

GotPayload == last.op # "none" /\ last.out.env.weather.kind = "ok"

\* C4: when fetch_surf_data gets a 200 response, the raw payload, the tide payload
\* and the fetch timestamp are in the cache file under the request's key when the
\* call returns, unless writing the file failed.
C4_WriteThrough ==
    (IsFetch /\ GotPayload /\ last.out.env.save \notin {"open_fails", "dump_fails"}) =>
        /\ last.out.file.state = "object"
        /\ last.out.key[1] \in DOMAIN last.out.file.entries
        /\ last.out.file.entries[last.out.key[1]] =
               [data |-> last.out.env.weather.data, tide_data |-> last.out.ret.tide_data,
                timestamp |-> Some(last.at)]

UpstreamFailed == last.op # "none" /\ last.out.env.weather.kind \in {"status", "neterr"}

\* C5: when the upstream weather call ends in a non-2xx status or a network error,
\* fetch_surf_data returns an error payload (for a status, one that carries the
\* status code and the raw body) and the cache file is what it was before the call.
C5_UpstreamFailureKeepsCache ==
    (IsFetch /\ UpstreamFailed) =>
        /\ last.out.ret.kind = "error"
        /\ last.out.env.weather.kind = "status" =>
              last.out.ret.error.detail = <<last.out.env.weather.code, last.out.env.weather.text>>
        /\ last.out.file = last.pre

\* a failed upstream call over a cache file that holds an entry
C5_Witness ==
    /\ IsFetch
    /\ last.out.env.weather.kind = "status"
    /\ last.pre.state = "object"
    /\ DOMAIN last.pre.entries # {}
    /\ last.out.ret.kind = "error"
    /\ cache_file = last.pre

\* the lookup of the call is one of the miss cases of the cache contract
MissCase ==
    /\ last.op # "none"
    /\ last.out.key # None
    /\ \/ last.pre.state \in {"absent", "unreadable", "notjson", "list", "scalar"}
       \/ last.out.key[1] \notin DOMAIN last.pre.entries
       \/ HadEntry /\ AgeBefore >= 86400

\* C6: a cache lookup is a miss, never an error, when no entry exists for the key,
\* when the backing store is unreadable or corrupt, or when the entry has expired;
\* fetch_surf_data then goes on to the upstream call.
C6_MissNeverError ==
    (IsFetch /\ MissCase) =>
        /\ last.out.ret.kind # "raised"
        /\ last.out.weather_calls = 1

(***************************************************************************)
(* Properties of the public operations (specification SpecOps)             *)
(***************************************************************************)
Structures == {"data", "hourly", "current", "best"}

\* C2: every public operation of the fetcher returns either the requested structure
\* or an error payload that carries a message and the beach name, whatever the state
\* of the cache file and whatever the upstream answers; no call ends in an exception.
C2_NoUnhandledException ==
    last.op # "none" =>
        \/ last.out.ret.kind \in Structures
        \/ /\ last.out.ret.kind = "error"
           /\ last.out.ret.error.msg # ""
           /\ last.out.ret.beach_name = last.req.beach_name

(***************************************************************************)
(* Properties of the REST facade (specification SpecApi)                   *)
(***************************************************************************)
IsApi == api.op = "get_surf_data"

\* C3: one inbound request GET /api/surf/{beachName}/{date} makes at most one
\* upstream weather call, at most one upstream tide call and at most one
\* read-modify-write of the cache file, whatever the cache holds and whether
\* the upstream succeeds or fails.
C3_AtMostOneCallPerRequest ==
    IsApi =>
        /\ api.weather_calls <= 1
        /\ api.tide_calls <= 1
        /\ api.saves <= 1

(***************************************************************************)
(* Properties of the resolver (specification SpecResolve)                  *)
(***************************************************************************)
NormalizedName == str_strip(str_lower(resolved.beach_name))

IsRanked == ranked.op # "none"

\* wave height and wind speed as the ranker reads them: unavailable counts as 0
WaveOf(r) == IF r.wave_height = NA THEN 0 ELSE r.wave_height.v
WindOf(r) == IF r.wind_speed = NA THEN 0 ELSE r.wind_speed.v

\* min(30, wave_height_ft * 10) + max(0, 20 - wind_speed_mph), in tenths
ExpectedScore(r) ==
    (IF WaveOf(r) * 10 < 300 THEN WaveOf(r) * 10 ELSE 300)
    + (IF 200 - WindOf(r) > 0 THEN 200 - WindOf(r) ELSE 0)

GoodHours ==
    {i \in 1..Len(ranked.hourly_conditions) :
        WaveOf(ranked.hourly_conditions[i]) >= ranked.analysis.min_wave_height}

ExampleHours ==
    /\ IsRanked
    /\ ranked.analysis.min_wave_height = 20
    /\ Len(ranked.hourly_conditions) = 2
    /\ ranked.hourly_conditions[1].wave_height = Num(10)
    /\ ranked.hourly_conditions[1].wind_speed = Num(50)
    /\ ranked.hourly_conditions[2].wave_height = Num(30)
    /\ ranked.hourly_conditions[2].wind_speed = Num(20)

\* C8: the ranker leaves out every hour whose wave height (unavailable
\* counted as 0) is below the minimum, and every slot has the score
\* min(30, wave * 10) + max(0, 20 - wind) (unavailable wind counted as 0);
\* for the hours (1.0 ft, 5 mph), (3.0 ft, 2 mph) and minimum 2.0 the result
\* is exactly one slot, of score 48.
C8_RankerScore ==
    IsRanked =>
        LET best_times == ranked.analysis.best_times
            hourly_conditions == ranked.hourly_conditions
        IN  /\ \A k \in 1..Len(best_times) :
                   /\ WaveOf(best_times[k]) >= ranked.analysis.min_wave_height
                   /\ best_times[k].score = ExpectedScore(best_times[k])
            /\ \A i \in 1..Len(hourly_conditions) :
                   i \notin GoodHours =>
                       \A k \in 1..Len(best_times) : best_times[k].time # hourly_conditions[i].time
            /\ ExampleHours =>
                   /\ Len(best_times) = 1
                   /\ best_times[1].score = 480
                   /\ best_times[1].time = hourly_conditions[2].time

C8_Witness ==
    /\ ExampleHours
    /\ Len(ranked.analysis.best_times) = 1
    /\ ranked.analysis.best_times[1].score = 480

\* C9: best_times holds at most 5 slots, in descending score order; they are
\* the highest-scored qualifying hours; total_good_hours counts all
\* qualifying hours; when no hour clears the minimum, best_times is empty and
\* total_good_hours is 0.
C9_TopFive ==
    IsRanked =>
        LET best_times == ranked.analysis.best_times
            hourly_conditions == ranked.hourly_conditions
        IN  /\ Len(best_times) <= 5
            /\ Len(best_times) = (IF Cardinality(GoodHours) < 5 THEN Cardinality(GoodHours) ELSE 5)
            /\ \A k \in 1..(Len(best_times) - 1) : best_times[k].score >= best_times[k + 1].score
            /\ ranked.analysis.total_good_hours = Cardinality(GoodHours)
            /\ \A k \in 1..Len(best_times) :
                   \E i \in GoodHours :
                       /\ best_times[k].time = hourly_conditions[i].time
                       /\ best_times[k].score = ExpectedScore(hourly_conditions[i])
            /\ \A k, l \in 1..Len(best_times) : k # l => best_times[k].time # best_times[l].time
            /\ \A i \in GoodHours :
                   \/ \E k \in 1..Len(best_times) : best_times[k].time = hourly_conditions[i].time
                   \/ \A k \in 1..Len(best_times) :
                          best_times[k].score >= ExpectedScore(hourly_conditions[i])
            /\ GoodHours = {} => best_times = <<>> /\ ranked.analysis.total_good_hours = 0

\* six qualifying hours of different scores, five of them returned
C9_Witness ==
    /\ IsRanked
    /\ ranked.analysis.total_good_hours = 6
    /\ Len(ranked.analysis.best_times) = 5
    /\ ranked.analysis.best_times[1].score > ranked.analysis.best_times[5].score

\* no hour clears the minimum
C9_WitnessEmpty ==
    /\ IsRanked
    /\ Len(ranked.hourly_conditions) > 0
    /\ ranked.analysis.best_times = <<>>
    /\ ranked.analysis.total_good_hours = 0

NoTideSample(i) == TideMatches(ranked.tide_data, ranked.hours[i].time[1]) = <<>>

\* C10: an unavailable source reading is the sentinel in the normalized hour
\* record, never the number 0; and a ranked slot displays the values of the
\* normalized record of its hour, the coercion to 0 being used for the
\* score only.
C10_SentinelKept ==
    IsRanked =>
        LET best_times == ranked.analysis.best_times
            hourly_conditions == ranked.hourly_conditions
        IN  /\ \A i \in 1..Len(hourly_conditions) :
                   LET raw == ranked.hours[i]
                       n == hourly_conditions[i]
                   IN  /\ raw.waveHeight = NA => n.wave_height = NA
                       /\ raw.windSpeed = NA => n.wind_speed = NA
                       /\ raw.waterTemperature = NA => n.water_temperature = NA
                       /\ raw.airTemperature = NA => n.air_temperature = NA
                       /\ raw.visibility = NA => n.visibility = NA
                       /\ raw.waveDirection = NA => n.wave_direction = NA
                       /\ raw.wavePeriod = NA => n.wave_period = NA
                       /\ raw.windDirection = NA => n.wind_direction = NA
                       /\ raw.pressure = NA => n.pressure = NA
                       /\ raw.humidity = NA => n.humidity = NA
                       /\ raw.cloudCover = NA => n.cloud_cover = NA
                       /\ raw.precipitation = NA => n.precipitation = NA
                       /\ (raw.seaLevel = NA /\ NoTideSample(i)) => n.tide = NA
            /\ \A k \in 1..Len(best_times) :
                   \E i \in 1..Len(hourly_conditions) :
                       LET n == hourly_conditions[i]
                           slot == best_times[k]
                       IN  /\ slot.time = n.time
                           /\ slot.wave_height = n.wave_height
                           /\ slot.wave_period = n.wave_period
                           /\ slot.wind_speed = n.wind_speed
                           /\ slot.wind_direction = n.wind_direction
                           /\ slot.water_temperature = n.water_temperature
                           /\ slot.tide = n.tide

\* an hour without wave height and wind speed is ranked (minimum 0): its slot
\* displays the sentinel and its score counts both as 0
C10_Witness ==
    /\ IsRanked
    /\ \E k \in 1..Len(ranked.analysis.best_times) :
           /\ ranked.analysis.best_times[k].wave_height = NA
           /\ ranked.analysis.best_times[k].wind_speed = NA
           /\ ranked.analysis.best_times[k].score = 200
    /\ \E i \in 1..Len(ranked.hours) : ranked.hours[i].waveHeight = NA

(***************************************************************************)
(* Properties of the normalizer (specification SpecNorm)                   *)
(***************************************************************************)
IsNormalized == ranked.op = "get_hourly_conditions"
RawOf == ranked.hours[1]
NormalizedOf == ranked.hourly_conditions[1]

\* round(v * num / den, 1) of a reading v in hundredths, in tenths
Rounded1(v, num, den) == RoundHalfEven(v * num, den * 10)

\* C11 (as written): wave height, visibility and sea level are all taken as
\* meters and multiplied by 3.28084, rounded to 1 decimal; in particular a
\* present visibility v becomes round(v * 3.28084, 1).
C11_AllMetersToFeet ==
    IsNormalized =>
        /\ RawOf.waveHeight # NA => NormalizedOf.wave_height = Num(Rounded1(RawOf.waveHeight.v, 328084, 100000))
        /\ RawOf.visibility # NA => NormalizedOf.visibility = Num(Rounded1(RawOf.visibility.v, 328084, 100000))
        /\ (RawOf.seaLevel # NA /\ ranked.tide_data.kind = "error") =>
               NormalizedOf.tide = Num(10 * Rounded1(RawOf.seaLevel.v, 328084, 100000))

\* C11 (amended): wave height and the sea-level tide are meters multiplied by
\* 3.28084 and rounded to 1 decimal; visibility is multiplied by 0.621371
\* (kilometers to miles) and rounded to 1 decimal.
C11_VisibilityInMiles ==
    IsNormalized =>
        /\ RawOf.waveHeight # NA => NormalizedOf.wave_height = Num(Rounded1(RawOf.waveHeight.v, 328084, 100000))
        /\ RawOf.visibility # NA => NormalizedOf.visibility = Num(Rounded1(RawOf.visibility.v, 621371, 1000000))
        /\ (RawOf.seaLevel # NA /\ ranked.tide_data.kind = "error") =>
               NormalizedOf.tide = Num(10 * Rounded1(RawOf.seaLevel.v, 328084, 100000))

\* a visibility of 1.00 is normalized to 0.6, a wave height of 1.00 m to 3.3 ft
C11_Witness ==
    /\ IsNormalized
    /\ RawOf.visibility = Num(100) /\ NormalizedOf.visibility = Num(6)
    /\ RawOf.waveHeight = Num(100) /\ NormalizedOf.wave_height = Num(33)

\* C12: a wave height of 1.0 m is normalized to 3.3 ft and a water temperature
\* of 0 C to 32.0 F (a present 0 is converted, not unavailable); wind speed is
\* m/s * 2.23694 and temperatures are C * 9/5 + 32, rounded to 1 decimal.
C12_FixedPoints ==
    IsNormalized =>
        /\ RawOf.waveHeight = Num(100) => NormalizedOf.wave_height = Num(33)
        /\ RawOf.waterTemperature = Num(0) => NormalizedOf.water_temperature = Num(320)
        /\ RawOf.windSpeed # NA => NormalizedOf.wind_speed = Num(Rounded1(RawOf.windSpeed.v, 223694, 100000))
        /\ RawOf.waterTemperature # NA =>
               NormalizedOf.water_temperature = Num(RoundHalfEven(RawOf.waterTemperature.v * 9 + 16000, 50))
        /\ RawOf.airTemperature # NA =>
               NormalizedOf.air_temperature = Num(RoundHalfEven(RawOf.airTemperature.v * 9 + 16000, 50))

C12_Witness ==
    /\ IsNormalized
    /\ RawOf.waveHeight = Num(100) /\ NormalizedOf.wave_height = Num(33)
    /\ RawOf.waterTemperature = Num(0) /\ NormalizedOf.water_temperature = Num(320)
    /\ RawOf.windSpeed = Num(100) /\ NormalizedOf.wind_speed = Num(22)

\* the samples of the provider at the hour's timestamp, in the provider's order
SamplesAtHour ==
    IF ranked.provider.kind = "samples"
    THEN SelectSeq(ranked.provider.heights, LAMBDA e : e.time = RawOf.time[1])
    ELSE <<>>

\* C18: the tide of an hour is the value of the first tide sample whose
\* timestamp string equals the hour's (meters * 3.28084 rounded to 2
\* decimals); otherwise the hour's sea level in feet rounded to 1 decimal,
\* when present; otherwise the unavailable sentinel.
C18_TideMerge ==
    IsNormalized =>
        IF SamplesAtHour # <<>>
        THEN NormalizedOf.tide = Num(RoundHalfEven(SamplesAtHour[1].hourly_height * 328084, 100000))
        ELSE IF RawOf.seaLevel # NA
        THEN NormalizedOf.tide = Num(10 * Rounded1(RawOf.seaLevel.v, 328084, 100000))
        ELSE NormalizedOf.tide = NA

\* two samples at the hour and a present sea level: the first sample wins
C18_Witness ==
    /\ IsNormalized
    /\ Len(SamplesAtHour) = 2
    /\ RawOf.seaLevel = Num(-30)
    /\ NormalizedOf.tide = Num(328)

\* no sample at the hour: the sea level of the hour is used
C18_WitnessFallback ==
    /\ IsNormalized
    /\ ranked.provider.kind = "samples" /\ SamplesAtHour = <<>>
    /\ RawOf.seaLevel = Num(100)
    /\ NormalizedOf.tide = Num(330)

C13_WitnessTideError ==
    /\ IsFetch /\ HadEntry
    /\ AgeBefore = 0
    /\ EntryBefore.tide_data.kind = "error"
    /\ last.out.ret.cached
    /\ last.out.ret.tide_data = EntryBefore.tide_data

\* the coordinates the call used: the explicit ones or the resolved ones
CoordsOfCall ==
    IF last.req.lat # None /\ last.req.lng # None
    THEN <<last.req.lat[1], last.req.lng[1]>>
    ELSE LookupCoordinates(last.req.beach_name)

KeyDates == {D1, "2024-1-1", "01/01/2024"}

\* the keys of the same location with the other choice about the date: every
\* dated key for an undated call, the undated key for a dated call
TwinKeys ==
    IF last.req.target_date = None
    THEN {CacheKey(CoordsOfCall[1], CoordsOfCall[2], Some(d)) : d \in KeyDates}
    ELSE {CacheKey(CoordsOfCall[1], CoordsOfCall[2], None)}

\* C14: the cache key of a request without a date differs from the key of a
\* request for the same location with a date, so a call reads only the entry
\* under its own key and, when it rewrites the store, leaves the entry of the
\* other kind of request for the location as it was.
C14_DatedKeysApart ==
    (IsFetch /\ last.out.key # None) =>
        \A k \in TwinKeys :
            /\ k # last.out.key[1]
            /\ (last.out.ret.kind = "data" /\ last.out.ret.cached) =>
                   /\ HadEntry
                   /\ last.out.ret.data = EntryBefore.data
            /\ (last.pre.state = "object" /\ k \in DOMAIN last.pre.entries
                    /\ last.out.file.state = "object") =>
                   /\ k \in DOMAIN last.out.file.entries
                   /\ last.out.file.entries[k] = last.pre.entries[k]

\* an undated call for a location whose dated entry is fresh in the store: it
\* misses, calls the upstream and stores its own entry beside the dated one
C14_Witness ==
    /\ IsFetch /\ last.out.key # None
    /\ last.req.target_date = None
    /\ last.pre.state = "object"
    /\ \E k \in TwinKeys :
          /\ k \in DOMAIN last.pre.entries
          /\ last.pre.entries[k].timestamp = Some(last.at)
          /\ last.out.key[1] \notin DOMAIN last.pre.entries
          /\ last.out.weather_calls = 1
          /\ last.out.ret.kind = "data" /\ ~last.out.ret.cached
          /\ last.out.file.state = "object"
          /\ last.out.file.entries[k] = last.pre.entries[k]
          /\ last.out.file.entries[last.out.key[1]].data # last.pre.entries[k].data

\* the reverse: a dated call over a fresh undated entry of the location
C14_WitnessReverse ==
    /\ IsFetch /\ last.out.key # None
    /\ last.req.target_date # None
    /\ last.pre.state = "object"
    /\ \E k \in TwinKeys :
          /\ k \in DOMAIN last.pre.entries
          /\ last.pre.entries[k].timestamp = Some(last.at)
          /\ last.out.key[1] \notin DOMAIN last.pre.entries
          /\ last.out.weather_calls = 1
          /\ last.out.file.state = "object"
          /\ last.out.file.entries[k] = last.pre.entries[k]

\* the call reached _save_cache and the write failed
SaveFailed ==
    /\ last.op # "none"
    /\ last.out.saves = 1
    /\ last.out.env.save \in {"open_fails", "dump_fails"}

\* C15: when the write of the cache file fails after a successful upstream
\* call, fetch_surf_data still returns the fetched payload and its tide
\* payload with cached = False and no error.
C15_SaveFailureSwallowed ==
    (IsFetch /\ SaveFailed) =>
        /\ last.out.weather_calls = 1
        /\ last.out.ret.kind = "data"
        /\ ~last.out.ret.cached
        /\ last.out.ret.data = last.out.env.weather.data
        /\ last.out.ret.timestamp = last.at

\* json.dump fails after open() truncated a file that held entries
C15_Witness ==
    /\ IsFetch /\ SaveFailed
    /\ last.out.env.save = "dump_fails"
    /\ last.pre.state = "object" /\ last.pre.entries # EmptyEntries
    /\ last.out.file.state = "notjson"
    /\ last.out.ret.kind = "data" /\ ~last.out.ret.cached

\* open() fails: the file is left as it was
C15_WitnessOpen ==
    /\ IsFetch /\ SaveFailed
    /\ last.out.env.save = "open_fails"
    /\ last.out.file = last.pre
    /\ last.out.ret.kind = "data" /\ ~last.out.ret.cached

\* the text is YYYY-MM-DD: four digits, two digits, two digits, a calendar date
IsoDate(date) ==
    /\ Len(date) = 10
    /\ CharAt(date, 5) = "-" /\ CharAt(date, 8) = "-"
    /\ AllDigits(SubSeq(date, 1, 4)) /\ AllDigits(SubSeq(date, 6, 7)) /\ AllDigits(SubSeq(date, 9, 10))
    /\ strptime_ok(date)

UnknownBeach == LookupCoordinates(api.beach_name) = None

\* the request called the upstream weather service and the call failed
ApiUpstreamFailed == api.weather_calls > 0 /\ api.env.weather.kind \in {"neterr", "status", "badjson"}

\* C16: GET /api/surf/{beachName}/{date} answers a date that is not
\* YYYY-MM-DD with a client error (4xx) and an unknown beach or an upstream
\* failure with not-found (404), never with a success response.
C16_ErrorStatus ==
    IsApi =>
        /\ ~IsoDate(api.date) => api.response.status \in 400..499
        /\ (IsoDate(api.date) /\ (UnknownBeach \/ ApiUpstreamFailed)) => api.response.status = 404

\* the call fetched a well-formed weather payload over a store that loads as
\* a JSON object, and its tide fetch failed
TideFailed ==
    /\ last.op \in {"fetch_surf_data", "get_hourly_conditions"}
    /\ last.out.weather_calls = 1
    /\ last.out.env.weather = [kind |-> "ok", data |-> "A"]
    /\ last.pre.state \in {"absent", "notjson", "object"}
    /\ _get_noaa_tide_data(last.req.beach_name, last.req.target_date, last.out.env.tide).kind = "error"

\* what get_hourly_conditions returns for the payload when the tide provider
\* has a sample for no hour of it
HoursWithoutSamples == NormalizeHours(Body("A").hours, [kind |-> "samples", tide_conditions |-> <<>>, station_id |-> ""])

\* C17: a failed tide fetch (no station for the beach, an empty answer, an
\* exception of the provider) does not fail the request: fetch_surf_data
\* returns the weather payload with an error only inside tide_data, and
\* get_hourly_conditions returns every hour of the payload, each with the
\* fields it has without tide samples (the tide falling back to the sea level).
C17_TideFailureDegrades ==
    TideFailed =>
        /\ last.op = "fetch_surf_data" =>
              /\ last.out.ret.kind = "data"
              /\ last.out.ret.data = "A"
              /\ last.out.ret.tide_data.kind = "error"
        /\ last.op = "get_hourly_conditions" =>
              /\ last.out.ret.kind = "hourly"
              /\ last.out.ret.hourly_conditions = HoursWithoutSamples

\* the provider raises during get_hourly_conditions
C17_Witness ==
    /\ TideFailed
    /\ last.op = "get_hourly_conditions"
    /\ last.out.env.tide.kind = "raises"
    /\ last.out.tide_calls = 1
    /\ last.out.ret.kind = "hourly"
    /\ last.out.ret.hourly_conditions[1].tide = Num(160)
    /\ last.out.ret.hourly_conditions[2].tide = NA

\* a beach with coordinates and no tide station
C17_WitnessNoStation ==
    /\ TideFailed
    /\ last.req.beach_name = "san onofre"
    /\ last.out.tide_calls = 0
    /\ last.out.ret.kind \in {"data", "hourly"}

\* the provider has no data for the date
C17_WitnessEmpty ==
    /\ TideFailed
    /\ last.op = "fetch_surf_data"
    /\ last.out.env.tide.kind = "empty"
    /\ last.out.ret.kind = "data"
    /\ last.out.ret.tide_data.kind = "error"

\* the position in the input of the hour with the given time
InputIndex(time) ==
    CHOOSE i \in 1..Len(ranked.hourly_conditions) : ranked.hourly_conditions[i].time = time

\* the qualifying hours that are not among best_times
CutHours ==
    {i \in GoodHours :
        \A k \in 1..Len(ranked.analysis.best_times) :
            ranked.analysis.best_times[k].time # ranked.hourly_conditions[i].time}

\* C19: two qualifying hours of the same score appear in best_times in their
\* input (chronological) order, and of several hours tied at the top-5 cut
\* the earlier ones are kept.
C19_StableTies ==
    IsRanked =>
        LET best_times == ranked.analysis.best_times
        IN  /\ \A k, l \in 1..Len(best_times) :
                   (k < l /\ best_times[k].score = best_times[l].score) =>
                       InputIndex(best_times[k].time) < InputIndex(best_times[l].time)
            /\ \A i \in CutHours : \A k \in 1..Len(best_times) :
                   best_times[k].score = ExpectedScore(ranked.hourly_conditions[i]) =>
                       InputIndex(best_times[k].time) < i

\* two hours of score 48 that differ in their tide, below an hour of score 30
\* that comes first in the input
C19_Witness ==
    /\ IsRanked
    /\ Len(ranked.hourly_conditions) = 3
    /\ ExpectedScore(ranked.hourly_conditions[1]) = 300
    /\ ExpectedScore(ranked.hourly_conditions[2]) = 480
    /\ ExpectedScore(ranked.hourly_conditions[3]) = 480
    /\ ranked.hourly_conditions[1].tide = Num(328)
    /\ Len(ranked.analysis.best_times) = 3
    /\ ranked.analysis.best_times[1].time = HourStamp(2)
    /\ ranked.analysis.best_times[2].time = HourStamp(3)
    /\ ranked.analysis.best_times[3].time = HourStamp(1)

\* six hours of one score: the first five are kept, in input order
C19_WitnessCut ==
    /\ IsRanked
    /\ ranked.analysis.total_good_hours = 6
    /\ \A i \in 1..6 : ExpectedScore(ranked.hourly_conditions[i]) = 480
    /\ CutHours = {6}
    /\ \A k \in 1..5 : ranked.analysis.best_times[k].time = HourStamp(k)

\* the positions of the gazetteer literal whose key contains the normalized
\* name or is contained in it
MatchingPositions ==
    {i \in 1..Len(beach_coordinates_literal) :
        \/ str_in(NormalizedName, beach_coordinates_literal[i][1])
        \/ str_in(beach_coordinates_literal[i][1], NormalizedName)}

FirstMatchingKey ==
    beach_coordinates_literal[CHOOSE i \in MatchingPositions : \A j \in MatchingPositions : i <= j][1]

\* the call had no coordinates and its name does not resolve
Unresolved ==
    /\ last.req.lat = None \/ last.req.lng = None
    /\ LookupCoordinates(last.req.beach_name) = None

\* C20: a name that is not a gazetteer key after normalisation resolves to the
\* coordinates of the first gazetteer entry, in iteration order, whose key
\* contains the normalized name or is contained in it, and to None when
\* there is none; fetch_surf_data by such an unresolved name returns the
\* "not found" error payload, does not load or write the cache file, and
\* calls neither the upstream nor the tide provider.
C20_PartialMatchOrNotFound ==
    /\ (resolved.op # "none" /\ NormalizedName \notin GazetteerKeys) =>
           IF MatchingPositions = {}
           THEN resolved.coords = None
           ELSE resolved.coords = DictGet(beach_coordinates_literal, FirstMatchingKey)
    /\ (IsFetch /\ Unresolved) =>
           /\ last.out.ret.kind = "error"
           /\ last.out.ret.error.msg = "Beach not found in database"
           /\ last.out.ret.beach_name = last.req.beach_name
           /\ last.out.loads = 0 /\ last.out.saves = 0
           /\ last.out.weather_calls = 0 /\ last.out.tide_calls = 0
           /\ last.out.key = None
           /\ last.out.file = last.pre

\* "zuma" resolves to None, and a fetch by it over a store with an entry
\* returns the error without touching anything
C20_Witness ==
    /\ resolved.op # "none" /\ resolved.beach_name = "zuma" /\ resolved.coords = None
    /\ IsFetch /\ last.req.beach_name = "zuma"
    /\ last.pre.state = "object" /\ last.pre.entries # EmptyEntries
    /\ last.out.ret.kind = "error" /\ last.out.loads = 0

\* "north malibu" contains the key "malibu"; a fetch by it calls the upstream
C20_WitnessContains ==
    /\ resolved.op # "none" /\ resolved.beach_name = "north malibu"
    /\ resolved.coords = DictGet(beach_coordinates_literal, "malibu")
    /\ IsFetch /\ last.req.beach_name = "north malibu" /\ last.out.weather_calls = 1

\* "san" is part of several keys: the first of them in iteration order wins
C20_WitnessContained ==
    /\ resolved.op # "none" /\ resolved.beach_name = "san"
    /\ Cardinality(MatchingPositions) > 1
    /\ FirstMatchingKey = "san onofre"
    /\ resolved.coords = DictGet(beach_coordinates_literal, "san onofre")

\* the lookup of the call found an entry that is still inside the window
HitCase == HadEntry /\ AgeBefore < cache_expiry

\* C21: one invocation of fetch_surf_data makes exactly one upstream weather
\* request when the cache lookup misses and none when it hits; a failed
\* request is not repeated within the invocation.
C21_OneRequestPerMiss ==
    (IsFetch /\ last.out.key # None) =>
        /\ last.out.weather_calls <= 1
        /\ HitCase => last.out.weather_calls = 0
        /\ MissCase => last.out.weather_calls = 1

(***************************************************************************)
(* Properties of names across the resolver and the tide-station lookup     *)
(* (specification SpecResolve)                                             *)
(***************************************************************************)
\* the gazetteer key the resolver maps the name to, when it maps it
ResolvedKey == IF NormalizedName \in GazetteerKeys THEN NormalizedName ELSE FirstMatchingKey

\* C29: the tide-station lookup accepts the names the resolver accepts: for a
\* non-empty name that the resolver maps (after lowercasing, trimming, or by
\* substring match) to a gazetteer entry that has a tide station, the lookup
\* of line 170 finds a station.
C29_StationForResolvedName ==
    (/\ resolved.op # "none"
     /\ NormalizedName # ""
     /\ resolved.coords # None
     /\ DictHas(tide_stations_literal, ResolvedKey)) =>
        TideStation(resolved.beach_name) # None

\* C30: a beach name that is empty or consists of whitespace only resolves
\* to NotFound: the resolver returns no coordinates for it.
C30_EmptyNameNotFound ==
    (resolved.op # "none" /\ NormalizedName = "") => resolved.coords = None

(***************************************************************************)
(* Properties of the cache across beach names and days (specification Spec)*)
(***************************************************************************)
\* the call resolved its beach name and was answered from the cache
NamedHit ==
    /\ IsFetch
    /\ last.req.lat = None
    /\ last.out.ret.kind = "data"
    /\ last.out.ret.cached

\* C25: the tide data returned for a beach is the tide data of that beach,
\* whichever names were requested before: a name without a tide station gets
\* the 'No tide station found' error from the cache, and a name with a
\* station never gets that error and gets samples of its own station only.
C25_TideOfOwnBeach ==
    NamedHit =>
        LET station_id == LookupStation(last.req.beach_name)
            tide_data == last.out.ret.tide_data
        IN  IF station_id = None
            THEN tide_data.kind = "error" /\ tide_data.error = "No tide station found"
            ELSE /\ tide_data.kind = "error" => tide_data.error # "No tide station found"
                 /\ tide_data.kind = "samples" => tide_data.station_id = station_id[1]

\* the calendar day of a time of the clock; the clock starts at midnight
DayOf(t) == t \div 86400

\* C26: a request without a date returns data of the current calendar day:
\* what it gets from the cache was fetched on the day of the request.
C26_UndatedIsToday ==
    (IsFetch /\ last.req.target_date = None /\ last.out.ret.kind = "data" /\ last.out.ret.cached) =>
        DayOf(last.out.ret.timestamp) = DayOf(last.at)

\* a fetch_surf_data over a store that loaded as a JSON object fetched from
\* the weather service, returned the data and left a rewritten store
WroteStore ==
    /\ IsFetch
    /\ last.pre.state = "object"
    /\ last.out.ret.kind = "data"
    /\ ~last.out.ret.cached
    /\ last.out.file.state = "object"

OtherKeys == DOMAIN last.pre.entries \ {last.out.key[1]}

C27_Witness ==
    /\ WroteStore
    /\ last.out.env.save = "ok"
    /\ \E k \in OtherKeys :
          /\ last.pre.entries[k].timestamp # None
          /\ last.at - last.pre.entries[k].timestamp[1] < cache_expiry

ProviderErrors == {"Error fetching NOAA tide data", "No tide data available for this date"}

\* C28: a tide-fetch failure is not remembered: a request within the expiry
\* window of an entry that was stored when the tide call failed is not
\* answered with the stored tide error.  (A call answered from the cache
\* consults no provider, so its answer is the same whether or not the tide
\* provider works again.)
C28_TideFailureNotRemembered ==
    NamedHit =>
        ~(/\ last.out.ret.tide_data.kind = "error"
          /\ last.out.ret.tide_data.error \in ProviderErrors)

(***************************************************************************)
(* Properties of get_best_surf_times with a date (specification SpecOps)   *)
(***************************************************************************)
\* the cache key get_hourly_conditions uses for the request of the last call
KeyOfRequest == CacheKey(CoordsOfCall[1], CoordsOfCall[2], last.req.target_date)

\* C24: get_best_surf_times(beach, target_date=d) ranks the hours of date d:
\* it reads the cache key that get_hourly_conditions(beach, target_date=d)
\* reads, the key of the coordinates with the date d.
C24_BestTimesOfDate ==
    (last.op = "get_best_surf_times" /\ last.req.target_date # None /\ last.out.ret.kind = "best") =>
        last.out.key = Some(KeyOfRequest)

(***************************************************************************)
(* Properties of the secondary cache in the facade (specification SpecApi) *)
(***************************************************************************)
\* the answer of the secondary service was neither a stored document nor a
\* plain miss: the service was unreachable or its body was not a JSON object
SecondaryFailed(answer) == answer.kind \in {"unreachable", "notdict"}

\* C23: whenever the secondary cache service is unreachable or answers with
\* a malformed body, the request goes on as on a cache miss: for the forecast
\* cache the fetcher is asked for fresh conditions and a response is
\* produced; for the text cache the analysis and the summary are generated.
C23_SecondaryFailureIsMiss ==
    api.op = "get_surf_data" =>
        /\ SecondaryFailed(api.sg) =>
              /\ api.fresh
              /\ api.fetcher_calls # <<>>
              /\ api.response.status = 200
        /\ SecondaryFailed(api.ai) =>
              /\ api.response.aiAnalysis.source = "generated"
              /\ api.response.oneSentenceSummary.source = "generated"

(***************************************************************************)
(* Properties of concurrent invocations (specification SpecConc)           *)
(***************************************************************************)
Quiescent == \A t \in ThreadIds : threads[t].pc \in {"idle", "done"}

\* C22: under every interleaving of two concurrent invocations the only
\* damage is a lost entry: once no invocation is writing, every entry the
\* store holds is exactly what some invocation fetched for that key, and
\* every answer (fresh or from the cache) is what some invocation fetched
\* for the key of the request, obtained with at most one upstream call.
C22_OnlyLostEntries ==
    /\ Quiescent =>
          \A i \in 1..Len(LoadText(disk)) : LoadText(disk)[i] \in fetched
    /\ \A t \in ThreadIds :
          threads[t].pc = "done" =>
              /\ <<threads[t].key, threads[t].ret>> \in fetched
              /\ threads[t].weather_calls <= 1

====
